---- MODULE Spec2Model ----
(***************************************************************************)
(* Carrier-service rate computation of the shipping-rates app.             *)
(*                                                                         *)
(* The repository holds three versions of the rate route                   *)
(*   "rates"   src/app/routes/api.rates.jsx            (the route file)    *)
(*   "volume"  src/app/routes/app._index.jsx:13-242    (volume pricing)    *)
(*   "legacy"  src/unnamed/part_010                    (pre-volume)        *)
(* The variable build says which one is deployed.  JavaScript values are   *)
(* records tagged by their type (field t); strings are sequences of        *)
(* one-character strings so that trim, upper-casing and number parsing are *)
(* computed, not assumed.  One action models the code that runs between    *)
(* two awaits of the handler; administrative writes interleave there.      *)
(***************************************************************************)
EXTENDS Integers, Sequences, FiniteSets, TLC

VARIABLES build, shopSettings, shippingChart, pc, request, parsed, reads,
          items, merchCents, managedZoneConfig, basisCents, volumeMeta,
          charts, response,
          interleaved, \* history: the writes that landed between the reads
                       \* of the request in flight
          engine,   \* a direct call of computeVolumeAdjustedMerchCents
          zone,     \* a direct call of isDestinationManaged
          coerce    \* a direct call of toInt or clampInt

\* The tables and the locals of the rate route
routeVars == <<build, shopSettings, shippingChart, pc, request, parsed, reads,
               items, merchCents, managedZoneConfig, basisCents, volumeMeta,
               charts, response, interleaved>>

\* The arguments and the result of a function called on its own
callVars == <<engine, zone, coerce>>

vars == <<build, shopSettings, shippingChart, pc, request, parsed, reads,
          items, merchCents, managedZoneConfig, basisCents, volumeMeta,
          charts, response, interleaved, engine, zone, coerce>>

(***************************************************************************)
(* Bounds of the model                                                     *)
(***************************************************************************)
MaxItems == 2

\* Longest item list of a direct engine call
MaxEngineItems == 2

\* Number of successive direct calls with the same arguments
MaxCalls == 2

(***************************************************************************)
(* JavaScript values                                                       *)
(***************************************************************************)
Undef == [t |-> "undefined", n |-> 0, s |-> <<>>]

Null == [t |-> "null", n |-> 0, s |-> <<>>]

NaN == [t |-> "NaN", n |-> 0, s |-> <<>>]

Infinity == [t |-> "Infinity", n |-> 0, s |-> <<>>]

Num(i) == [t |-> "number", n |-> i, s |-> <<>>]

Str(cs) == [t |-> "string", n |-> 0, s |-> cs]

\* The number k / 2, for the numbers with a fractional part
Half(k) == [t |-> "number", n |-> k, s |-> <<"/", "2">>]

Bool(b) == [t |-> "boolean", n |-> IF b THEN 1 ELSE 0, s |-> <<>>]

True == Bool(TRUE)

False == Bool(FALSE)

\* JavaScript truthiness, as used by !x, x || y and by Array.prototype.filter
Truthy(x) ==
  CASE x.t = "undefined" -> FALSE
    [] x.t = "null" -> FALSE
    [] x.t = "NaN" -> FALSE
    [] x.t = "number" -> x.n # 0
    [] x.t = "string" -> Len(x.s) > 0
    [] x.t = "boolean" -> x.n = 1
    [] OTHER -> TRUE

\* a || b
JsOr(a, b) == IF Truthy(a) THEN a ELSE b

\* a ?? b
Coalesce(a, b) == IF a.t \in {"undefined", "null"} THEN b ELSE a

\* x?.[f] : undefined for null, undefined, primitives and absent properties
Get(x, f) == IF x.t = "object" /\ f \in DOMAIN x THEN x[f] ELSE Undef

(***************************************************************************)
(* Strings                                                                 *)
(***************************************************************************)
Digits == <<"0", "1", "2", "3", "4", "5", "6", "7", "8", "9">>

Lower == <<"a", "b", "c", "d", "e", "f", "g", "h", "i", "j", "k", "l", "m",
           "n", "o", "p", "q", "r", "s", "t", "u", "v", "w", "x", "y", "z">>

Upper == <<"A", "B", "C", "D", "E", "F", "G", "H", "I", "J", "K", "L", "M",
           "N", "O", "P", "Q", "R", "S", "T", "U", "V", "W", "X", "Y", "Z">>

IsDigit(c) == \E i \in 1..10 : Digits[i] = c

DigitVal(c) == (CHOOSE i \in 1..10 : Digits[i] = c) - 1

IsSpace(c) == c = " "

ToUpperChar(c) ==
  IF \E i \in 1..26 : Lower[i] = c
  THEN Upper[CHOOSE i \in 1..26 : Lower[i] = c]
  ELSE c

\* String.prototype.toUpperCase
ToUpperCase(cs) == [i \in 1..Len(cs) |-> ToUpperChar(cs[i])]

RECURSIVE TrimStart(_)
TrimStart(cs) ==
  IF cs # <<>> /\ IsSpace(Head(cs)) THEN TrimStart(Tail(cs)) ELSE cs

RECURSIVE TrimEnd(_)
TrimEnd(cs) ==
  IF cs # <<>> /\ IsSpace(cs[Len(cs)])
  THEN TrimEnd(SubSeq(cs, 1, Len(cs) - 1))
  ELSE cs

\* String.prototype.trim
Trim(cs) == TrimEnd(TrimStart(cs))

AllDigits(cs) == cs # <<>> /\ \A i \in 1..Len(cs) : IsDigit(cs[i])

RECURSIVE DigitsValue(_)
DigitsValue(cs) ==
  IF cs = <<>> THEN 0
  ELSE 10 * DigitsValue(SubSeq(cs, 1, Len(cs) - 1)) + DigitVal(cs[Len(cs)])

RECURSIVE NatToStr(_)
NatToStr(n) ==
  IF n < 10 THEN <<Digits[n + 1]>>
  ELSE NatToStr(n \div 10) \o <<Digits[(n % 10) + 1]>>

\* String(n) for an integer n
IntToStr(n) == IF n < 0 THEN <<"-">> \o NatToStr(0 - n) ELSE NatToStr(n)

\* Number(s) for a string: trimmed; "" is 0; optionally signed decimal
\* digits are their value; any other text is NaN
StringToNumber(cs) ==
  LET s == Trim(cs) IN
  IF s = <<>> THEN Num(0)
  ELSE IF AllDigits(s) THEN Num(DigitsValue(s))
  ELSE IF Head(s) = "-" /\ AllDigits(Tail(s)) THEN Num(0 - DigitsValue(Tail(s)))
  ELSE IF Head(s) = "+" /\ AllDigits(Tail(s)) THEN Num(DigitsValue(Tail(s)))
  ELSE NaN

\* Number(x)
ToNumber(x) ==
  CASE x.t = "number" -> x
    [] x.t = "NaN" -> NaN
    [] x.t = "Infinity" -> Infinity
    [] x.t = "null" -> Num(0)
    [] x.t = "boolean" -> Num(x.n)
    [] x.t = "string" -> StringToNumber(x.s)
    [] OTHER -> NaN

\* Number.isFinite(x) for a result of Number(.)
IsFinite(x) == x.t = "number"

\* String(x) for the values that reach a String(.) call in the handler
JsString(x) ==
  CASE x.t = "string" -> x.s
    [] x.t = "number" -> IntToStr(x.n)
    [] x.t = "undefined" -> <<"u", "n", "d", "e", "f", "i", "n", "e", "d">>
    [] x.t = "null" -> <<"n", "u", "l", "l">>
    [] x.t = "boolean" -> IF x.n = 1 THEN <<"t", "r", "u", "e">>
                          ELSE <<"f", "a", "l", "s", "e">>
    [] x.t = "NaN" -> <<"N", "a", "N">>
    [] OTHER -> <<"I", "n", "f", "i", "n", "i", "t", "y">>

(***************************************************************************)
(* Request authentication                                                  *)
(***************************************************************************)
\* process.env.SHOPIFY_API_SECRET of a configured deployment
SHOPIFY_API_SECRET == "secret"

\* base64 HMAC-SHA256 of message msg under key: an injective abstraction,
\* every digest is a 44 character string
Hmac(key, msg) == [len |-> 44, key |-> key, msg |-> msg]

NoHeader == [len |-> 0, key |-> "", msg |-> <<>>]

\* A header value that is not a digest at all: timingSafeEqual throws on
\* buffers of different length and the catch returns false
ShortHeader == [len |-> 3, key |-> "", msg |-> <<>>]

\* Faulty variant: only the lengths of the digest and the header are compared
verifyShopifyHmac_LengthOnly(rawBody, hmacHeader) ==
  IF hmacHeader.len = 0 THEN FALSE
  ELSE Hmac(SHOPIFY_API_SECRET, rawBody).len = hmacHeader.len

verifyShopifyHmac(rawBody, hmacHeader) ==
  IF hmacHeader.len = 0 THEN FALSE
  ELSE LET digest == Hmac(SHOPIFY_API_SECRET, rawBody) IN
       IF digest.len # hmacHeader.len THEN FALSE
       ELSE digest = hmacHeader

(***************************************************************************)
(* Tier matching and pricing                                               *)
(***************************************************************************)
\* A nullable integer column (maxCents, flatPriceCents, percentBps): NullInt
\* or Some(v)
NullInt == <<>>

Some(v) == <<v>>

\* Faulty variant: the upper bound is exclusive
isBetween_ExclusiveMax(value, minCents, maxCents) ==
  IF value < minCents THEN FALSE
  ELSE IF maxCents = NullInt THEN TRUE
  ELSE value < maxCents[1]

isBetween(value, minCents, maxCents) ==
  IF value < minCents THEN FALSE
  ELSE IF maxCents = NullInt THEN TRUE
  ELSE value <= maxCents[1]

\* Faulty variant: Math.floor in place of Math.round
MathRoundDiv_Floor(num, den) == num \div den

\* Math.round of the quotient num / den, den > 0: nearest integer, halves
\* towards plus infinity
MathRoundDiv(num, den) == (2 * num + den) \div (2 * den)

computeTierPriceCents(tier, basis, handlingFeeCents) ==
  LET tierRateCents ==
        IF tier.priceType = "PERCENT_OF_BASIS"
        THEN MathRoundDiv(basis * (IF tier.percentBps = NullInt THEN 0
                                   ELSE tier.percentBps[1]), 10000)
        ELSE (IF tier.flatPriceCents = NullInt THEN 0
              ELSE tier.flatPriceCents[1])
  IN tierRateCents + handlingFeeCents

(***************************************************************************)
(* Zone gate                                                               *)
(***************************************************************************)
\* Faulty variant: the code is upper-cased but not trimmed
normalizeProvinceCode_Untrimmed(p) == ToUpperCase(JsString(JsOr(p, Str(<<>>))))

\* String(p || "").trim().toUpperCase()
normalizeProvinceCode(p) == ToUpperCase(Trim(JsString(JsOr(p, Str(<<>>)))))

normalizeCountryCode(c) == ToUpperCase(Trim(JsString(JsOr(c, Str(<<>>)))))

\* countries?.[cc] : the countries object is a record whose m field maps
\* country codes to entries
CountryEntry(countries, cc) ==
  IF countries.t = "object" /\ cc \in DOMAIN countries.m
  THEN countries.m[cc] ELSE Undef

EmptyObject == [t |-> "object", m |-> <<>>]

\* Faulty variant: a country without an entry counts as managed
isDestinationManaged_MissingEntryManaged(config, destCountry, destProvince) ==
  LET cfg == JsOr(Get(config, "groups"), EmptyObject)
      cc == normalizeCountryCode(destCountry)
      pcode == normalizeProvinceCode(destProvince)
      isNA == cc = <<"U", "S">> \/ cc = <<"C", "A">> \/ cc = <<"M", "X">>
      groupKey == IF isNA THEN "northAmerica" ELSE "international"
      countries == JsOr(Get(Get(cfg, groupKey), "countries"), EmptyObject)
      entry == CountryEntry(countries, cc)
      provinces == Get(entry, "provinces")
      provs == IF provinces.t = "array"
               THEN [i \in 1..Len(provinces.v) |->
                       normalizeProvinceCode(provinces.v[i])]
               ELSE <<>>
  IN IF ~Truthy(entry) THEN TRUE
     ELSE IF Get(entry, "selected") = True THEN TRUE
     ELSE IF Len(provs) = 0 THEN FALSE
     ELSE IF pcode = <<>> THEN FALSE
     ELSE \E i \in 1..Len(provs) : provs[i] = pcode

\* Faulty variant: Mexico is looked up in the international group
isDestinationManaged_MexicoInternational(config, destCountry, destProvince) ==
  LET cfg == JsOr(Get(config, "groups"), EmptyObject)
      cc == normalizeCountryCode(destCountry)
      pcode == normalizeProvinceCode(destProvince)
      isNA == cc = <<"U", "S">> \/ cc = <<"C", "A">>
      groupKey == IF isNA THEN "northAmerica" ELSE "international"
      countries == JsOr(Get(Get(cfg, groupKey), "countries"), EmptyObject)
      entry == CountryEntry(countries, cc)
      provinces == Get(entry, "provinces")
      provs == IF provinces.t = "array"
               THEN [i \in 1..Len(provinces.v) |->
                       normalizeProvinceCode(provinces.v[i])]
               ELSE <<>>
  IN IF ~Truthy(entry) THEN FALSE
     ELSE IF Get(entry, "selected") = True THEN TRUE
     ELSE IF Len(provs) = 0 THEN FALSE
     ELSE IF pcode = <<>> THEN FALSE
     ELSE \E i \in 1..Len(provs) : provs[i] = pcode

\* api.rates.jsx 52-78
isDestinationManaged(config, destCountry, destProvince) ==
  LET cfg == JsOr(Get(config, "groups"), EmptyObject)
      cc == normalizeCountryCode(destCountry)
      pcode == normalizeProvinceCode(destProvince)
      isNA == cc = <<"U", "S">> \/ cc = <<"C", "A">> \/ cc = <<"M", "X">>
      groupKey == IF isNA THEN "northAmerica" ELSE "international"
      countries == JsOr(Get(Get(cfg, groupKey), "countries"), EmptyObject)
      entry == CountryEntry(countries, cc)
      provinces == Get(entry, "provinces")
      provs == IF provinces.t = "array"
               THEN [i \in 1..Len(provinces.v) |->
                       normalizeProvinceCode(provinces.v[i])]
               ELSE <<>>
  IN IF ~Truthy(entry) THEN FALSE
     ELSE IF Get(entry, "selected") = True THEN TRUE
     ELSE IF Len(provs) = 0 THEN FALSE
     ELSE IF pcode = <<>> THEN FALSE
     ELSE \E i \in 1..Len(provs) : provs[i] = pcode

(***************************************************************************)
(* Volume pricing engine (app/lib/pricing/volumePricingEngine.server.js)   *)
(***************************************************************************)
\* Faulty variant: the fractional part is dropped towards minus infinity
MathTrunc_Floor(x) == IF x.s = <<>> THEN x.n ELSE x.n \div 2

\* Math.trunc of a finite number: the number itself when it is an integer,
\* else the integer next to it towards zero
MathTrunc(x) ==
  IF x.s = <<>> THEN x.n
  ELSE IF x.n >= 0 THEN x.n \div 2
  ELSE 0 - ((0 - x.n) \div 2)

toInt(n, fallback) ==
  LET x == ToNumber(n) IN IF IsFinite(x) THEN MathTrunc(x) ELSE fallback

Min2(a, b) == IF a < b THEN a ELSE b

Max2(a, b) == IF a > b THEN a ELSE b

clampInt(n, min, max) == Min2(Max2(toInt(n, min), min), max)

\* The longest suffix of decimal digits of cs
RECURSIVE TrailingDigits(_)
TrailingDigits(cs) ==
  IF cs # <<>> /\ IsDigit(cs[Len(cs)])
  THEN TrailingDigits(SubSeq(cs, 1, Len(cs) - 1)) \o <<cs[Len(cs)]>>
  ELSE <<>>

\* s.match(/\/(\d+)\s*$/) on the trimmed string s, d its trailing digits
IdOfTrimmed(s, d) ==
  IF s = <<>> THEN <<>>
  ELSE IF d # <<>> /\ Len(d) < Len(s) /\ s[Len(s) - Len(d)] = "/"
  THEN d
  ELSE s

IdOfString(s) == IdOfTrimmed(s, TrailingDigits(s))

normalizeIdLike(v) ==
  IF v.t \in {"null", "undefined"} THEN <<>>
  ELSE IdOfString(Trim(JsString(v)))

\* An optional object: None or Some(record)
None == <<>>

\* Faulty variant: a later tier of equal threshold replaces the best one
BetterTier_LastOfEqual(best, q, minEligibleQty, discountCentsEach) ==
  IF minEligibleQty <= 0 THEN best
  ELSE IF discountCentsEach <= 0 THEN best
  ELSE IF q >= minEligibleQty
          /\ (best = None \/ minEligibleQty >= best[1].minEligibleQty)
  THEN Some([minEligibleQty |-> minEligibleQty,
             discountCentsEach |-> discountCentsEach])
  ELSE best

\* One turn of the loop of pickBestTier
BetterTier(best, q, minEligibleQty, discountCentsEach) ==
  IF minEligibleQty <= 0 THEN best
  ELSE IF discountCentsEach <= 0 THEN best
  ELSE IF q >= minEligibleQty
          /\ (best = None \/ minEligibleQty > best[1].minEligibleQty)
  THEN Some([minEligibleQty |-> minEligibleQty,
             discountCentsEach |-> discountCentsEach])
  ELSE best

RECURSIVE pickBestTierFrom(_, _, _)
pickBestTierFrom(tiers, q, best) ==
  IF tiers = <<>> THEN best
  ELSE pickBestTierFrom(Tail(tiers), q,
         BetterTier(best, q,
                    toInt(Get(Head(tiers), "minEligibleQty"), 0),
                    toInt(Get(Head(tiers), "discountCentsEach"), 0)))

pickBestTier(tiers, eligibleQty) ==
  IF tiers.t # "array" \/ Len(tiers.v) = 0 THEN None
  ELSE pickBestTierFrom(tiers.v, eligibleQty, None)

\* Faulty variant: every item enters the computation
Slice_Uncapped(seq, cap) == seq

\* items.slice(0, hardItemCap)
Slice(seq, cap) == SubSeq(seq, 1, Min2(Len(seq), cap))

\* new Set((ids || []).map(normalizeIdLike)); the call of .map throws a
\* TypeError when ids is truthy and not an array
IdListThrows(ids) == Truthy(ids) /\ ids.t # "array"

IdSet(ids) ==
  IF ids.t = "array" THEN {normalizeIdLike(ids.v[i]) : i \in 1..Len(ids.v)}
  ELSE {}

\* item?.product_id || item?.productId || item?.product
ItemProductId(item) ==
  normalizeIdLike(JsOr(Get(item, "product_id"),
                       JsOr(Get(item, "productId"), Get(item, "product"))))

RECURSIVE SumSeq(_)
SumSeq(seq) == IF seq = <<>> THEN 0 ELSE Head(seq) + SumSeq(Tail(seq))

EngineResult(merch, qty, tier, discount, warnings) ==
  [threw |-> FALSE, ok |-> TRUE, volumeAdjustedMerchCents |-> merch,
   eligibleQty |-> qty, appliedTier |-> tier, discountCentsTotal |-> discount,
   warnings |-> warnings]

EngineThrew ==
  [threw |-> TRUE, ok |-> FALSE, volumeAdjustedMerchCents |-> 0,
   eligibleQty |-> 0, appliedTier |-> None, discountCentsTotal |-> 0,
   warnings |-> <<>>]

\* Faulty variant: the excluded set does not take an item out of the
\* eligible ones
NormalizedItem_ExclusionIgnored(item, productId, eligibleSet, excludedSet) ==
  [unitCents |-> toInt(Get(item, "price"), 0),
   qty |-> clampInt(Get(item, "quantity"), 0, 1000000),
   productId |-> productId,
   isEligible |-> productId # <<>> /\ productId \in eligibleSet,
   isExcluded |-> productId # <<>> /\ productId \in excludedSet]

\* One entry of the normalized list (lines 129-147)
NormalizedItem(item, productId, eligibleSet, excludedSet) ==
  [unitCents |-> toInt(Get(item, "price"), 0),
   qty |-> clampInt(Get(item, "quantity"), 0, 1000000),
   productId |-> productId,
   isEligible |-> /\ productId # <<>>
                  /\ productId \in eligibleSet
                  /\ productId \notin excludedSet,
   isExcluded |-> productId # <<>> /\ productId \in excludedSet]

NormalizeItems(capped, eligibleSet, excludedSet) ==
  [i \in 1..Len(capped) |->
     NormalizedItem(capped[i], ItemProductId(capped[i]), eligibleSet, excludedSet)]

\* The undiscounted merchandise total of the normalized items
MerchOf(normalized) ==
  SumSeq([i \in 1..Len(normalized) |->
            normalized[i].unitCents * normalized[i].qty])

EligibleQtyOf(normalized) ==
  SumSeq([i \in 1..Len(normalized) |->
            IF normalized[i].isEligible THEN normalized[i].qty ELSE 0])

\* Faulty variant: the discounted unit price is not clamped at 0
DiscountedUnit_Unclamped(it, discountEach) == it.unitCents - discountEach

\* Math.max(0, unitCents - discountCentsEach)
DiscountedUnit(it, discountEach) == Max2(0, it.unitCents - discountEach)

AdjustedOf(normalized, discountEach) ==
  SumSeq([i \in 1..Len(normalized) |->
            IF normalized[i].isEligible
            THEN DiscountedUnit(normalized[i], discountEach) * normalized[i].qty
            ELSE normalized[i].unitCents * normalized[i].qty])

\* Faulty variant: the full per-unit discount is counted for every
\* eligible unit, also where the unit price was clamped at 0
DiscountTotalOf_Unclamped(normalized, discountEach) ==
  SumSeq([i \in 1..Len(normalized) |->
            IF normalized[i].isEligible
            THEN discountEach * normalized[i].qty
            ELSE 0])

\* discountCentsTotal: (baseUnit - discountedUnit) x qty over the eligible
\* items
DiscountTotalOf(normalized, discountEach) ==
  SumSeq([i \in 1..Len(normalized) |->
            IF normalized[i].isEligible
            THEN (normalized[i].unitCents
                  - DiscountedUnit(normalized[i], discountEach))
                 * normalized[i].qty
            ELSE 0])

\* Lines 161-201: the tier picked for the eligible quantity and its effect
EngineApplyTier(normalized, eligibleQty, appliedTier, warnings) ==
  IF appliedTier = None
  THEN EngineResult(MerchOf(normalized), eligibleQty, None, 0, warnings)
  ELSE EngineResult(AdjustedOf(normalized, appliedTier[1].discountCentsEach),
                    eligibleQty, appliedTier,
                    DiscountTotalOf(normalized, appliedTier[1].discountCentsEach),
                    warnings)

\* Faulty variant: the empty eligible set leaves no warning
EngineOnNormalized_Unwarned(tiers, normalized, eligibleSet, eligibleQty, warnings) ==
  IF tiers.t # "array" \/ Len(tiers.v) = 0
  THEN EngineResult(MerchOf(normalized), 0, None, 0, warnings)
  ELSE IF eligibleSet = {}
  THEN EngineResult(MerchOf(normalized), 0, None, 0, warnings)
  ELSE EngineApplyTier(normalized, eligibleQty,
                       pickBestTier(tiers, eligibleQty), warnings)

\* Lines 102-172 once the items are normalized
EngineOnNormalized(tiers, normalized, eligibleSet, eligibleQty, warnings) ==
  IF tiers.t # "array" \/ Len(tiers.v) = 0
  THEN EngineResult(MerchOf(normalized), 0, None, 0, warnings)
  ELSE IF eligibleSet = {}
  THEN EngineResult(MerchOf(normalized), 0, None, 0,
                    warnings \o <<"eligibility_missing_or_empty">>)
  ELSE EngineApplyTier(normalized, eligibleQty,
                       pickBestTier(tiers, eligibleQty), warnings)

EngineOnCapped(tiers, normalized, eligibleSet, warnings) ==
  EngineOnNormalized(tiers, normalized, eligibleSet, EligibleQtyOf(normalized),
                     warnings)

\* Lines 122-147: the cap on the number of items and the normalized list
EngineOnItems(itemSeq, tiers, eligibleSet, excludedSet, hardItemCap) ==
  EngineOnCapped(tiers,
                 NormalizeItems(Slice(itemSeq, hardItemCap), eligibleSet,
                                excludedSet),
                 eligibleSet,
                 IF Len(itemSeq) > hardItemCap THEN <<"items_capped">> ELSE <<>>)

computeVolumeAdjustedMerchCents(itemsArg, config, eligibilitySnapshot, hardItemCap) ==
  IF itemsArg.t # "array" \/ Len(itemsArg.v) = 0
  THEN EngineResult(0, 0, None, 0, <<>>)
  ELSE IF /\ Get(eligibilitySnapshot, "version") = Num(1)
          /\ \/ IdListThrows(Get(eligibilitySnapshot, "eligibleProductIds"))
             \/ IdListThrows(Get(eligibilitySnapshot, "excludedProductIds"))
  THEN EngineThrew
  ELSE EngineOnItems(
         itemsArg.v,
         IF Get(config, "version") = Num(1) THEN Get(config, "tiers") ELSE Null,
         IF Get(eligibilitySnapshot, "version") = Num(1)
         THEN IdSet(Get(eligibilitySnapshot, "eligibleProductIds")) ELSE {},
         IF Get(eligibilitySnapshot, "version") = Num(1)
         THEN IdSet(Get(eligibilitySnapshot, "excludedProductIds")) ELSE {},
         hardItemCap)

(***************************************************************************)
(* Volume pricing provider (app/lib/pricing/volumePricingProvider)         *)
(***************************************************************************)
\* A stored JSON text column: valid says whether JSON.parse accepts it,
\* blank whether it is empty or white space, value is what it parses to
JsonText(value) == [valid |-> TRUE, blank |-> FALSE, value |-> value]

BadJsonText == [valid |-> FALSE, blank |-> FALSE, value |-> Undef]

\* safeJsonParse(str, null) of the provider; a missing row gives undefined
providerSafeJsonParse(text) ==
  IF text = None THEN Null
  ELSE IF text[1].blank \/ ~text[1].valid THEN Null
  ELSE text[1].value

IsObjectLike(x) == x.t \in {"object", "array"}

normalizeConfig(raw) ==
  IF ~Truthy(raw) \/ ~IsObjectLike(raw) THEN Null
  ELSE IF Get(raw, "version") = Num(1) /\ Get(raw, "tiers").t = "array"
  THEN [t |-> "object", version |-> Num(1), tiers |-> Get(raw, "tiers")]
  ELSE IF Get(raw, "volumeTable").t = "array"
  THEN [t |-> "object", version |-> Num(1),
        tiers |-> [t |-> "array",
                   v |-> [i \in 1..Len(raw.volumeTable.v) |->
                            LET e == raw.volumeTable.v[i] IN
                            [t |-> "object",
                             minEligibleQty |->
                               ToNumber(Coalesce(Get(e, "minEligibleQty"), Num(0))),
                             discountCentsEach |->
                               ToNumber(Coalesce(Get(e, "discountCentsEach"), Num(0)))]]]]
  ELSE Null

normalizeEligibility(raw) ==
  IF ~Truthy(raw) \/ ~IsObjectLike(raw) THEN Null
  ELSE IF Get(raw, "version") = Num(1) THEN raw
  ELSE IF Get(raw, "eligibleProductIds").t = "array"
          \/ Get(raw, "excludedProductIds").t = "array"
  THEN [t |-> "object", version |-> Num(1),
        eligibleProductIds |->
          JsOr(Get(raw, "eligibleProductIds"), [t |-> "array", v |-> <<>>]),
        excludedProductIds |->
          JsOr(Get(raw, "excludedProductIds"), [t |-> "array", v |-> <<>>])]
  ELSE Null

(***************************************************************************)
(* Persisted state: ShopSettings rows and ShippingChart rows with tiers    *)
(***************************************************************************)
ShopA == "shop-a"

ShopB == "shop-b"

\* Shops with an administrator session in the model
AdminShops == {ShopA}

Array(seq) == [t |-> "array", v |-> seq]

\* { groups: { northAmerica: { countries: na }, international: { countries: intl } } }
ZoneConfig(na, intl) ==
  [t |-> "object",
   groups |-> [t |-> "object",
               northAmerica |-> [t |-> "object",
                                 countries |-> [t |-> "object", m |-> na]],
               international |-> [t |-> "object",
                                  countries |-> [t |-> "object", m |-> intl]]]]

ProvincesEntry(codes) ==
  [t |-> "object", selected |-> Undef,
   provinces |-> Array([i \in 1..Len(codes) |-> Str(codes[i])])]

SelectedEntry == [t |-> "object", selected |-> True, provinces |-> Undef]

getDefaultConfig == ZoneConfig(<<>>, <<>>)

\* normalizeConfig of the settings route
normalizeZoneConfig(raw) ==
  LET cfg == IF Truthy(raw) /\ IsObjectLike(raw) THEN raw ELSE getDefaultConfig
      g == Get(cfg, "groups")
      groups == IF Truthy(g) /\ IsObjectLike(g) THEN g ELSE EmptyObject
      nac == Get(Get(groups, "northAmerica"), "countries")
      ic == Get(Get(groups, "international"), "countries")
      na == IF Truthy(nac) /\ nac.t = "object" THEN nac.m ELSE <<>>
      intl == IF Truthy(ic) /\ ic.t = "object" THEN ic.m ELSE <<>>
  IN ZoneConfig(na, intl)

\* The zone selections an administrator submits from the settings page
ZoneSubmissions ==
  { Array(<<>>),
    ZoneConfig(<<"U", "S">> :> ProvincesEntry(<<<<"C", "A">>, <<"N", "Y">>>>),
               <<"G", "B">> :> SelectedEntry) }

VolumeTier(minQty, cents) ==
  [t |-> "object", minEligibleQty |-> Num(minQty), discountCentsEach |-> Num(cents)]

\* The documents the volume pricing collaborators store: the column
\* defaults '{}', a version 1 tier table with its eligibility snapshot, and
\* a version 1 snapshot whose eligible identifiers are text instead of a
\* list
VolumeDocuments ==
  { [config |-> JsonText([t |-> "object"]),
     eligibility |-> JsonText([t |-> "object"])],
    [config |-> JsonText([t |-> "object", version |-> Num(1),
                          tiers |-> Array(<<VolumeTier(2, 200)>>)]),
     eligibility |-> JsonText([t |-> "object", version |-> Num(1),
                               eligibleProductIds |->
                                 Array(<<Str(<<"g", "i", "d", "/", "7">>)>>),
                               excludedProductIds |-> Array(<<>>)])],
    [config |-> JsonText([t |-> "object", version |-> Num(1),
                          tiers |-> Array(<<VolumeTier(2, 200)>>)]),
     eligibility |-> JsonText([t |-> "object", version |-> Num(1),
                               eligibleProductIds |-> Str(<<"7">>)])] }

DefaultSettingsRow ==
  [managedZoneConfigJson |-> JsonText(Array(<<>>)),
   volumePricingConfigJson |-> JsonText([t |-> "object"]),
   volumeEligibilitySnapshotJson |-> JsonText([t |-> "object"])]

Shops == {ShopA, ShopB}

\* A tier as the chart editor creates it (isActive true, serviceCode null)
Tier(chartId, k, minCents, maxCents, priceType, flat, bps) ==
  [id |-> <<chartId, k>>, chartId |-> chartId, name |-> <<chartId, k>>,
   minCents |-> minCents, maxCents |-> maxCents, priceType |-> priceType,
   flatPriceCents |-> flat, percentBps |-> bps, serviceCode |-> None,
   isActive |-> TRUE, sortOrder |-> k - 1]

\* The tier lists of the chart editor forms (amounts already in cents)
TierFormA ==
  << [minCents |-> 0, maxCents |-> Some(999), priceType |-> "FLAT",
      flatPriceCents |-> Some(500), percentBps |-> NullInt],
     [minCents |-> 1000, maxCents |-> Some(1000), priceType |-> "PERCENT_OF_BASIS",
      flatPriceCents |-> NullInt, percentBps |-> Some(15)] >>

TierFormB ==
  << [minCents |-> 0, maxCents |-> Some(2000), priceType |-> "FLAT",
      flatPriceCents |-> Some(300), percentBps |-> NullInt],
     [minCents |-> 0, maxCents |-> NullInt, priceType |-> "FLAT",
      flatPriceCents |-> Some(900), percentBps |-> NullInt] >>

TierFormC ==
  << [minCents |-> 0, maxCents |-> NullInt, priceType |-> "FLAT",
      flatPriceCents |-> Some(50), percentBps |-> NullInt] >>

\* The forms an administrator submits from the chart editor
ChartForms ==
  { [isActive |-> TRUE, handlingFeeCents |-> 100, tiers |-> TierFormA],
    [isActive |-> TRUE, handlingFeeCents |-> 0, tiers |-> TierFormB],
    [isActive |-> FALSE, handlingFeeCents |-> 0, tiers |-> TierFormC] }

\* tiers: { create: tierCreates } after deleteMany: the chart's tiers are
\* exactly the submitted ones
CreateTiers(chartId, form) ==
  [k \in 1..Len(form) |->
     Tier(chartId, k, form[k].minCents, form[k].maxCents, form[k].priceType,
          form[k].flatPriceCents, form[k].percentBps)]

Chart(id, shop, priority, form) ==
  [id |-> id, shop |-> shop, name |-> id, isActive |-> form.isActive,
   priority |-> priority, handlingFeeCents |-> form.handlingFeeCents,
   tiers |-> CreateTiers(id, form.tiers)]

ChartIds == {"c1", "c2", "c3"}

(***************************************************************************)
(* Inbound requests                                                        *)
(***************************************************************************)
Item(requires_shipping, price, quantity, product_id) ==
  [t |-> "object", requires_shipping |-> requires_shipping, price |-> price,
   quantity |-> quantity, product_id |-> product_id]

\* Entries of rate.items: priced physical item, item that needs no
\* shipping, text price, null price, and a null entry
ItemSamples ==
  { Item(True, Num(1000), Num(1), Num(7)),
    Item(False, Num(500), Num(1), Num(8)),
    Item(True, Str(<<"a", "b", "c">>), Num(1), Num(7)),
    Item(True, Null, Num(1), Num(8)),
    Null }

RECURSIVE SeqsUpTo(_, _)
SeqsUpTo(S, n) ==
  IF n = 0 THEN {<<>>}
  ELSE LET shorter == SeqsUpTo(S, n - 1) IN
       shorter \cup {Append(q, e) : q \in {r \in shorter : Len(r) = n - 1}, e \in S}

Destination(country_code, province_code) ==
  [t |-> "object", country_code |-> country_code, province_code |-> province_code]

\* rate.destination, rate.currency and rate.order_totals of the samples
RateSamples ==
  { [destination |-> Destination(Str(<<"U", "S">>), Str(<<"T", "X">>)),
     currency |-> Undef, order_totals |-> Undef],
    [destination |-> Destination(Str(<<"u", "s">>), Str(<<" ", "n", "y">>)),
     currency |-> Str(<<"C", "A", "D">>),
     order_totals |-> [t |-> "object", total_price |-> Num(700)]],
    [destination |-> Destination(Str(<<"G", "B">>), Undef),
     currency |-> Undef, order_totals |-> Undef] }

Payload(itemsValue, r) ==
  [t |-> "object",
   rate |-> [t |-> "object", items |-> itemsValue, destination |-> r.destination,
             currency |-> r.currency, order_totals |-> r.order_totals]]

\* A raw body: text that JSON.parse accepts (valid) with the value it
\* parses to, or text it rejects
Body(payload) == [valid |-> TRUE, payload |-> payload]

BadBody == [valid |-> FALSE, payload |-> Undef]

WellFormedBodies ==
  { Body(Payload(Array(is), r)) : is \in SeqsUpTo(ItemSamples, MaxItems),
                                  r \in RateSamples }

\* JSON of another shape: null, no rate, rate.items absent or not a list
OddBodies ==
  { Body(Null),
    Body([t |-> "object", rate |-> Undef]),
    Body([t |-> "object", rate |-> [t |-> "object", items |-> Undef]]),
    Body([t |-> "object", rate |-> [t |-> "object", items |-> [t |-> "object"]]]),
    Body([t |-> "object", rate |-> [t |-> "object", items |-> Str(<<"a">>)]]) }

Bodies == WellFormedBodies \cup OddBodies \cup {BadBody}

PricedBody ==
  Body(Payload(Array(<<Item(True, Num(1000), Num(1), Num(7))>>),
               [destination |-> Destination(Str(<<"u", "s">>), Str(<<" ", "n", "y">>)),
                currency |-> Str(<<"C", "A", "D">>),
                order_totals |-> [t |-> "object", total_price |-> Num(700)]]))

\* Header values a sender can produce for a body: none, the digest under
\* the shared secret, a digest under another key, the digest of another
\* body, and text that is no digest
Headers(rawBody) ==
  { NoHeader, Hmac(SHOPIFY_API_SECRET, rawBody), Hmac("other-key", rawBody),
    Hmac(SHOPIFY_API_SECRET, IF rawBody = BadBody THEN PricedBody ELSE BadBody),
    ShortHeader }

NoShop == ""

\* Signed requests of shop A over every body; every header and shop
\* parameter over two bodies
Requests ==
  { [rawBody |-> b, hmac |-> Hmac(SHOPIFY_API_SECRET, b), shop |-> ShopA] :
      b \in Bodies }
  \cup
  UNION { { [rawBody |-> b, hmac |-> h, shop |-> sh] :
              h \in Headers(b), sh \in {NoShop, ShopA, ShopB} } :
          b \in {BadBody, PricedBody} }

(***************************************************************************)
(* Database reads of the handler                                           *)
(***************************************************************************)
Range(f) == {f[i] : i \in DOMAIN f}

\* The sequences that list the set S in an order that never puts y before
\* x when Before(x, y): what ORDER BY returns, ties in any order
Orderings(S, Before(_, _)) ==
  { q \in [1..Cardinality(S) -> S] :
      \A i, j \in 1..Cardinality(S) :
        i < j => q[i] # q[j] /\ ~Before(q[j], q[i]) }

\* orderBy: { priority: "desc" }
ChartBefore(a, b) == a.priority > b.priority

\* orderBy: [{ minCents: "asc" }, { maxCents: "asc" }]; SQLite sorts NULL
\* before every value
TierBefore(a, b) ==
  \/ a.minCents < b.minCents
  \/ /\ a.minCents = b.minCents
     /\ \/ a.maxCents = NullInt /\ b.maxCents # NullInt
        \/ a.maxCents # NullInt /\ b.maxCents # NullInt
           /\ a.maxCents[1] < b.maxCents[1]

ActiveTiers(chart) == {t \in Range(chart.tiers) : t.isActive}

RECURSIVE WithTierOrders(_)
WithTierOrders(q) ==
  IF q = <<>> THEN {<<>>}
  ELSE { <<[Head(q) EXCEPT !.tiers = ts]>> \o rest :
           ts \in Orderings(ActiveTiers(Head(q)), TierBefore),
           rest \in WithTierOrders(Tail(q)) }

\* prisma.shippingChart.findMany({ where: { shop, isActive: true },
\*   include: { tiers: { where: { isActive: true }, orderBy: ... } },
\*   orderBy: { priority: "desc" } }): the possible results
findManyCharts(table, shop) ==
  UNION { WithTierOrders(q) :
            q \in Orderings({c \in table : c.shop = shop /\ c.isActive},
                            ChartBefore) }

\* prisma.shopSettings.findUnique({ where: { shop } })
findUniqueSettings(table, shop) == IF shop \in DOMAIN table THEN table[shop] ELSE None

(***************************************************************************)
(* The rate handler: action({ request })                                   *)
(***************************************************************************)
Builds == {"rates", "volume", "legacy"}

\* const ENABLE_MANAGED_ZONE_GATE = false of api.rates.jsx; the other
\* versions test the gate unconditionally
ENABLE_MANAGED_ZONE_GATE(b) == b # "rates"

HardItemCap == 500

USD == Str(<<"U", "S", "D">>)

TextResponse(status, text) ==
  [raised |-> FALSE, status |-> status, text |-> text, rates |-> <<>>]

\* new Response("Invalid HMAC", { status: 401 })
InvalidHmacResponse == TextResponse(401, "Invalid HMAC")

\* Faulty variant: the missing shop parameter is answered with status 200
MissingShopResponse_Status200 == TextResponse(200, "Missing shop param")

\* new Response("Missing shop param", { status: 400 })
MissingShopResponse == TextResponse(400, "Missing shop param")

\* json({ rates })
JsonRates(rates) == [raised |-> FALSE, status |-> 200, text |-> "", rates |-> rates]

\* The handler throws; the framework answers 500
Raised == [raised |-> TRUE, status |-> 500, text |-> "", rates |-> <<>>]

NoResponse == [raised |-> FALSE, status |-> 0, text |-> "", rates |-> <<>>]

NoRequest == [rawBody |-> BadBody, hmac |-> NoHeader, shop |-> NoShop]

\* payload?.rate?.items ?? []
RateItems(payload) == Coalesce(Get(Get(payload, "rate"), "items"), Array(<<>>))

\* .filter((i) => i.requires_shipping) throws on a value without filter
\* and on a null or undefined entry
FilterThrows(itemsValue) ==
  \/ itemsValue.t # "array"
  \/ \E i \in 1..Len(itemsValue.v) : itemsValue.v[i].t \in {"null", "undefined"}

RequiresShipping(i) == Truthy(Get(i, "requires_shipping"))

FilterItems(itemsValue) == SelectSeq(itemsValue.v, RequiresShipping)

\* The loop of lines 137-148: the running total, or failure at the first
\* item whose price or quantity is not finite
RECURSIVE MerchLoop(_, _)
MerchLoop(its, acc) ==
  IF its = <<>> THEN [finite |-> TRUE, merchCents |-> acc]
  ELSE LET unitCents == ToNumber(Get(Head(its), "price"))
           qty == ToNumber(JsOr(Get(Head(its), "quantity"), Num(0)))
       IN IF ~IsFinite(unitCents) \/ ~IsFinite(qty)
          THEN [finite |-> FALSE, merchCents |-> acc]
          ELSE MerchLoop(Tail(its), acc + unitCents.n * qty.n)

ResetLocals ==
  /\ request' = NoRequest
  /\ parsed' = FALSE
  /\ reads' = <<>>
  /\ items' = <<>>
  /\ merchCents' = 0
  /\ managedZoneConfig' = Null
  /\ basisCents' = 0
  /\ volumeMeta' = None
  /\ charts' = <<>>
  /\ response' = NoResponse

\* Lines 90-148: verification, shop parameter, parsing, filtering and the
\* merchandise total, up to the first database read
Start(req) ==
  /\ pc = "idle"
  /\ request' = req
  /\ UNCHANGED <<build, shopSettings, shippingChart, reads, managedZoneConfig,
                 basisCents, volumeMeta, charts>>
  /\ IF ~verifyShopifyHmac(req.rawBody, req.hmac)
     THEN /\ response' = InvalidHmacResponse
          /\ pc' = "done"
          /\ UNCHANGED <<parsed, items, merchCents>>
     ELSE IF req.shop = NoShop
     THEN /\ response' = MissingShopResponse
          /\ pc' = "done"
          /\ UNCHANGED <<parsed, items, merchCents>>
     ELSE IF ~req.rawBody.valid
     THEN /\ response' = JsonRates(<<>>)
          /\ pc' = "done"
          /\ parsed' = TRUE
          /\ UNCHANGED <<items, merchCents>>
     ELSE IF FilterThrows(RateItems(req.rawBody.payload))
     THEN /\ response' = Raised
          /\ pc' = "done"
          /\ parsed' = TRUE
          /\ UNCHANGED <<items, merchCents>>
     ELSE LET filtered == FilterItems(RateItems(req.rawBody.payload))
              total == MerchLoop(filtered, 0)
          IN /\ parsed' = TRUE
             /\ items' = filtered
             /\ IF Len(filtered) = 0 \/ ~total.finite
                THEN /\ response' = JsonRates(<<>>)
                     /\ pc' = "done"
                     /\ UNCHANGED merchCents
                ELSE /\ merchCents' = total.merchCents
                     /\ pc' = "settings"
                     /\ UNCHANGED response

\* shopSettings?.managedZoneConfigJson ? JSON.parse(...) : null, in a try
parseManagedZoneConfig(row) ==
  IF row = None THEN Null
  ELSE LET text == row[1].managedZoneConfigJson IN
       IF text.blank THEN Null
       ELSE IF ~text.valid THEN Null
       ELSE text.value

\* safeJsonParse(shopSettings?.managedZoneConfigJson, null) of the volume
\* version
safeJsonParse(row) ==
  IF row = None THEN Null
  ELSE IF ~row[1].managedZoneConfigJson.valid THEN Null
  ELSE row[1].managedZoneConfigJson.value

\* payload?.rate?.destination || {}
Dest(payload) == JsOr(Get(Get(payload, "rate"), "destination"), EmptyObject)

DestCountry(payload) ==
  JsOr(Get(Dest(payload), "country_code"),
       JsOr(Get(Dest(payload), "country"), Str(<<>>)))

DestProvince(payload) ==
  JsOr(Get(Dest(payload), "province_code"),
       JsOr(Get(Dest(payload), "province"), Str(<<>>)))

\* Faulty variant: the read creates the settings row of a shop that has
\* none
ReadSettings_CreatesRow ==
  /\ pc = "settings"
  /\ LET row == findUniqueSettings(shopSettings, request.shop)
         config == IF build = "volume" THEN safeJsonParse(row)
                   ELSE parseManagedZoneConfig(row)
         payload == request.rawBody.payload
     IN /\ managedZoneConfig' = config
        /\ reads' = Append(reads, "shopSettings")
        /\ IF ENABLE_MANAGED_ZONE_GATE(build)
              /\ ~isDestinationManaged(config, DestCountry(payload),
                                       DestProvince(payload))
           THEN /\ response' = JsonRates(<<>>)
                /\ pc' = "done"
           ELSE /\ pc' = IF build = "volume" THEN "volume" ELSE "charts"
                /\ UNCHANGED response
  /\ shopSettings' = [shopSettings EXCEPT ![request.shop] =
                        IF @ = None THEN Some(DefaultSettingsRow) ELSE @]
  /\ UNCHANGED <<build, shippingChart, request, parsed, items,
                 merchCents, basisCents, volumeMeta, charts>>

\* The settings read and the managed zones gate
ReadSettings ==
  /\ pc = "settings"
  /\ LET row == findUniqueSettings(shopSettings, request.shop)
         config == IF build = "volume" THEN safeJsonParse(row)
                   ELSE parseManagedZoneConfig(row)
         payload == request.rawBody.payload
     IN /\ managedZoneConfig' = config
        /\ reads' = Append(reads, "shopSettings")
        /\ IF ENABLE_MANAGED_ZONE_GATE(build)
              /\ ~isDestinationManaged(config, DestCountry(payload),
                                       DestProvince(payload))
           THEN /\ response' = JsonRates(<<>>)
                /\ pc' = "done"
           ELSE /\ pc' = IF build = "volume" THEN "volume" ELSE "charts"
                /\ UNCHANGED response
  /\ UNCHANGED <<build, shopSettings, shippingChart, request, parsed, items,
                 merchCents, basisCents, volumeMeta, charts>>

\* loadVolumePricingForShop(shop)
loadVolumePricingForShop(table, shop) ==
  LET row == findUniqueSettings(table, shop) IN
  [config |-> normalizeConfig(providerSafeJsonParse(
                IF row = None THEN None ELSE Some(row[1].volumePricingConfigJson))),
   eligibilitySnapshot |-> normalizeEligibility(providerSafeJsonParse(
                IF row = None THEN None
                ELSE Some(row[1].volumeEligibilitySnapshotJson)))]

\* The engine called with what the provider loaded (lines 159-168)
EngineForLoaded(itemSeq, loaded) ==
  computeVolumeAdjustedMerchCents(Array(itemSeq), loaded.config,
                                  loaded.eligibilitySnapshot, HardItemCap)

\* Faulty variant: a failure of the try block leaves a basis of 0
VolumeOutcome_ZeroOnFailure(result) ==
  /\ reads' = Append(reads, "shopSettings")
  /\ IF result.threw
     THEN /\ basisCents' = 0
          /\ volumeMeta' = Some(EngineThrew)
     ELSE IF result.ok
     THEN /\ basisCents' = result.volumeAdjustedMerchCents
          /\ volumeMeta' = Some(result)
     ELSE /\ basisCents' = merchCents
          /\ volumeMeta' = None

\* Lines 169-177: the basis is the engine's total when result?.ok === true;
\* the catch keeps the undiscounted total and marks volumeMeta as failed
VolumeOutcome(result) ==
  /\ reads' = Append(reads, "shopSettings")
  /\ IF result.threw
     THEN /\ basisCents' = merchCents
          /\ volumeMeta' = Some(EngineThrew)
     ELSE IF result.ok
     THEN /\ basisCents' = result.volumeAdjustedMerchCents
          /\ volumeMeta' = Some(result)
     ELSE /\ basisCents' = merchCents
          /\ volumeMeta' = None

\* Lines 157-178 of the volume version: the cached volume pricing. The
\* read of the provider can reject, which the same catch absorbs
ApplyVolumePricing ==
  /\ pc = "volume"
  /\ \E loadRaises \in BOOLEAN :
       VolumeOutcome(IF loadRaises THEN EngineThrew
                     ELSE EngineForLoaded(items,
                            loadVolumePricingForShop(shopSettings, request.shop)))
  /\ pc' = "charts"
  /\ UNCHANGED <<build, shopSettings, shippingChart, request, parsed, items,
                 merchCents, managedZoneConfig, charts, response>>

\* The inner loop: the first tier of the chart, in the order read, whose
\* interval holds the basis
RECURSIVE FirstMatchingTier(_, _)
FirstMatchingTier(tiers, basis) ==
  IF tiers = <<>> THEN None
  ELSE IF isBetween(basis, Head(tiers).minCents, Head(tiers).maxCents)
  THEN Some(Head(tiers))
  ELSE FirstMatchingTier(Tail(tiers), basis)

ChartPrice(chart, tier, basis) ==
  computeTierPriceCents(tier, basis, chart.handlingFeeCents)

\* Faulty variant: the loop over the charts ends at the first chart with a
\* matching tier
RatesPerChart_FirstOnly(chartSeq, basis) ==
  LET matching == SelectSeq(chartSeq,
                    LAMBDA c : FirstMatchingTier(c.tiers, basis) # None)
  IN [i \in 1..Min2(1, Len(matching)) |->
        LET chart == matching[i]
            tier == FirstMatchingTier(chart.tiers, basis)[1]
        IN [service_name |-> chart.name,
            service_code |-> <<chart.id, tier.id>>,
            total_price |-> IntToStr(ChartPrice(chart, tier, basis)),
            currency |-> USD,
            description |-> None]]

\* api.rates.jsx 193-222: one offer for every chart with a matching tier
RatesPerChart(chartSeq, basis) ==
  LET matching == SelectSeq(chartSeq,
                    LAMBDA c : FirstMatchingTier(c.tiers, basis) # None)
  IN [i \in 1..Len(matching) |->
        LET chart == matching[i]
            tier == FirstMatchingTier(chart.tiers, basis)[1]
        IN [service_name |-> chart.name,
            service_code |-> <<chart.id, tier.id>>,
            total_price |-> IntToStr(ChartPrice(chart, tier, basis)),
            currency |-> USD,
            description |-> None]]

\* The outer loop of the other versions: best is set by the first chart
\* that has a matching tier
RECURSIVE FirstMatch(_, _)
FirstMatch(chartSeq, basis) ==
  IF chartSeq = <<>> THEN None
  ELSE LET tier == FirstMatchingTier(Head(chartSeq).tiers, basis) IN
       IF tier # None
       THEN Some([chart |-> Head(chartSeq), tier |-> tier[1]])
       ELSE FirstMatch(Tail(chartSeq), basis)

RatesFirstMatch(chartSeq, basis, payload, description) ==
  LET best == FirstMatch(chartSeq, basis) IN
  IF best = None THEN <<>>
  ELSE << [service_name |-> best[1].tier.name,
           service_code |-> <<IF best[1].tier.serviceCode # None
                              THEN best[1].tier.serviceCode[1]
                              ELSE best[1].tier.id>>,
           total_price |-> IntToStr(ChartPrice(best[1].chart, best[1].tier, basis)),
           currency |-> JsOr(Get(Get(payload, "rate"), "currency"), USD),
           description |-> Some(description)] >>

\* api.rates.jsx 185-186: payload?.rate?.order_totals?.total_price when it
\* converts to a finite number, else merchCents
OrderTotalBasis(payload, merch) ==
  LET raw == ToNumber(Get(Get(Get(payload, "rate"), "order_totals"), "total_price"))
  IN IF IsFinite(raw) THEN raw.n ELSE merch

\* The charts read, the tier selection and the response
ReadCharts ==
  /\ pc = "charts"
  /\ \E found \in findManyCharts(shippingChart, request.shop) :
       LET payload == request.rawBody.payload
           basis == CASE build = "rates" -> OrderTotalBasis(payload, merchCents)
                      [] build = "volume" -> basisCents
                      [] OTHER -> merchCents
           description ==
             [merchCents |-> merchCents, basisCents |-> basis,
              appliedTier |-> IF volumeMeta = None THEN None
                              ELSE volumeMeta[1].appliedTier]
       IN /\ charts' = found
          /\ basisCents' = basis
          /\ response' = JsonRates(IF build = "rates"
                                   THEN RatesPerChart(found, basis)
                                   ELSE RatesFirstMatch(found, basis, payload,
                                                        description))
  /\ reads' = Append(reads, "shippingChart")
  /\ pc' = "done"
  /\ UNCHANGED <<build, shopSettings, shippingChart, request, parsed, items,
                 merchCents, managedZoneConfig, volumeMeta>>

\* The response is delivered; the next request starts with fresh locals
Finish ==
  /\ pc = "done"
  /\ pc' = "idle"
  /\ ResetLocals
  /\ UNCHANGED <<build, shopSettings, shippingChart>>

(***************************************************************************)
(* Administrative writes                                                   *)
(***************************************************************************)
HandlerLocals ==
  <<pc, request, parsed, reads, items, merchCents, managedZoneConfig,
    basisCents, volumeMeta, charts, response>>

\* Settings route action, intent "save"
SaveSettings(shop, submitted) ==
  /\ shopSettings[shop] # None
  /\ shopSettings' =
       [shopSettings EXCEPT ![shop] =
          Some([@[1] EXCEPT !.managedZoneConfigJson =
                  JsonText(normalizeZoneConfig(submitted))])]
  /\ shopSettings' # shopSettings
  /\ UNCHANGED <<build, shippingChart>>
  /\ UNCHANGED HandlerLocals

\* The volume pricing collaborators replace the tier table and the
\* eligibility snapshot of a shop
SyncVolumePricing(shop, doc) ==
  /\ shopSettings[shop] # None
  /\ shopSettings' =
       [shopSettings EXCEPT ![shop] =
          Some([@[1] EXCEPT !.volumePricingConfigJson = doc.config,
                            !.volumeEligibilitySnapshotJson = doc.eligibility])]
  /\ shopSettings' # shopSettings
  /\ UNCHANGED <<build, shippingChart>>
  /\ UNCHANGED HandlerLocals

\* Faulty variant: the first of the earlier tiers survives the edit
EditChart_KeepsFirstTier(shop, id, form) ==
  /\ \E existing \in shippingChart :
       /\ existing.id = id /\ existing.shop = shop
       /\ shippingChart' =
            (shippingChart \ {existing}) \cup
            {[existing EXCEPT !.isActive = form.isActive,
                              !.handlingFeeCents = form.handlingFeeCents,
                              !.tiers = CreateTiers(id, form.tiers)
                                        \o SubSeq(@, 1, Min2(Len(@), 1))]}
  /\ shippingChart' # shippingChart
  /\ UNCHANGED <<build, shopSettings>>
  /\ UNCHANGED HandlerLocals

\* Chart editor action: deleteMany of the tiers and update of the chart
\* with the created tiers, in one transaction
EditChart(shop, id, form) ==
  /\ \E existing \in shippingChart :
       /\ existing.id = id /\ existing.shop = shop
       /\ shippingChart' =
            (shippingChart \ {existing}) \cup
            {[existing EXCEPT !.isActive = form.isActive,
                              !.handlingFeeCents = form.handlingFeeCents,
                              !.tiers = CreateTiers(id, form.tiers)]}
  /\ shippingChart' # shippingChart
  /\ UNCHANGED <<build, shopSettings>>
  /\ UNCHANGED HandlerLocals

\* Chart list action, intent "delete-chart": the chart of that id and shop
\* loses its tiers and is deleted, in one transaction; a ShippingTier row
\* cannot outlive its chart (chartId is a required key, ON DELETE CASCADE)
DeleteChart(shop, id) ==
  /\ \E existing \in shippingChart :
       /\ existing.id = id /\ existing.shop = shop
       /\ shippingChart' = shippingChart \ {existing}
  /\ UNCHANGED <<build, shopSettings>>
  /\ UNCHANGED HandlerLocals

(***************************************************************************)
(* Specification                                                           *)
(*                                                                         *)
(* pc = "done" only exposes the response that the last step computed: the  *)
(* handler has returned, so a write that lands then is ordered after       *)
(* Finish.                                                                 *)
(***************************************************************************)
\* ShippingChart.priority: the routes create charts with the default 0; a
\* row ranked above the others stands for a database edited outside them
ChartPriorities == {0, 1}

\* History of the request in flight. The handler reads the zone
\* configuration (pc "settings"), then, in the volume version, the tier
\* table and the snapshot (pc "volume"), then the charts (pc "charts").
\* zone, volume: that document of the request's shop was written after the
\* request read it. torn: a document the request had yet to read was
\* written after a write to a document it had already read, so that the
\* store never held together what the request has read
NoWrites == [zone |-> FALSE, volume |-> FALSE, torn |-> FALSE]

\* The zone configuration counts as read when the gate uses it
AfterWrite(shop, document) ==
  IF pc \notin {"volume", "charts"} \/ shop # request.shop THEN interleaved
  ELSE CASE document = "zone" ->
              [interleaved EXCEPT !.zone = ENABLE_MANAGED_ZONE_GATE(build)]
         [] document = "volume" ->
              IF build # "volume" THEN interleaved
              ELSE IF pc = "volume"
              THEN [interleaved EXCEPT !.torn = @ \/ interleaved.zone]
              ELSE [interleaved EXCEPT !.volume = TRUE]
         [] OTHER ->
              [interleaved EXCEPT
                 !.torn = @ \/ interleaved.zone \/ interleaved.volume]

\* No function is being called on its own
NoCall == [args |-> <<>>, calls |-> 0, result |-> <<>>]

Init ==
  /\ build \in Builds
  /\ shopSettings = (ShopA :> Some(DefaultSettingsRow)) @@ (ShopB :> None)
  /\ \E p \in ChartPriorities : shippingChart =
       { Chart("c1", ShopA, p,
               [isActive |-> TRUE, handlingFeeCents |-> 100, tiers |-> TierFormA]),
         Chart("c2", ShopA, 0,
               [isActive |-> TRUE, handlingFeeCents |-> 0, tiers |-> TierFormB]),
         Chart("c3", ShopB, 0,
               [isActive |-> TRUE, handlingFeeCents |-> 0, tiers |-> TierFormB]) }
  /\ pc = "idle"
  /\ request = NoRequest
  /\ parsed = FALSE
  /\ reads = <<>>
  /\ items = <<>>
  /\ merchCents = 0
  /\ managedZoneConfig = Null
  /\ basisCents = 0
  /\ volumeMeta = None
  /\ charts = <<>>
  /\ response = NoResponse
  /\ interleaved = NoWrites
  /\ engine = NoCall
  /\ zone = NoCall
  /\ coerce = NoCall

Next ==
  \/ (\E req \in Requests : Start(req)) /\ UNCHANGED interleaved
       /\ UNCHANGED callVars
  \/ ReadSettings /\ UNCHANGED interleaved /\ UNCHANGED callVars
  \/ ApplyVolumePricing /\ UNCHANGED interleaved /\ UNCHANGED callVars
  \/ ReadCharts /\ UNCHANGED interleaved /\ UNCHANGED callVars
  \/ Finish /\ interleaved' = NoWrites /\ UNCHANGED callVars
  \/ \E shop \in AdminShops, submitted \in ZoneSubmissions :
       pc # "done" /\ SaveSettings(shop, submitted)
       /\ interleaved' = AfterWrite(shop, "zone") /\ UNCHANGED callVars
  \/ \E shop \in AdminShops, doc \in VolumeDocuments :
       pc # "done" /\ SyncVolumePricing(shop, doc)
       /\ interleaved' = AfterWrite(shop, "volume") /\ UNCHANGED callVars
  \/ \E shop \in AdminShops, id \in ChartIds, form \in ChartForms :
       pc # "done" /\ EditChart(shop, id, form)
       /\ interleaved' = AfterWrite(shop, "charts") /\ UNCHANGED callVars

Spec == Init /\ [][Next]_vars

(***************************************************************************)
(* The handler next to the chart list of the administrator: charts are     *)
(* edited and deleted while signed requests of shop A are priced           *)
(***************************************************************************)
CartBody(itemsSeq) ==
  Body(Payload(Array(itemsSeq),
               [destination |-> Destination(Str(<<"U", "S">>), Str(<<"N", "Y">>)),
                currency |-> Undef, order_totals |-> Undef]))

\* One item; two items of the eligible product; a quantity above the
\* engine's bound; a negative quantity
CartBodies ==
  { CartBody(<<Item(True, Num(1000), Num(1), Num(8))>>),
    CartBody(<<Item(True, Num(400), Num(1), Num(7)),
               Item(True, Num(300), Num(2), Num(7))>>),
    CartBody(<<Item(True, Num(1), Num(2000000), Num(8))>>),
    CartBody(<<Item(True, Num(250), Num(0 - 2), Num(8))>>) }

CartRequests ==
  { [rawBody |-> b, hmac |-> Hmac(SHOPIFY_API_SECRET, b), shop |-> ShopA] :
      b \in CartBodies }

StoreNext ==
  \/ (\E req \in CartRequests : Start(req)) /\ UNCHANGED interleaved
       /\ UNCHANGED callVars
  \/ ReadSettings /\ UNCHANGED interleaved /\ UNCHANGED callVars
  \/ ApplyVolumePricing /\ UNCHANGED interleaved /\ UNCHANGED callVars
  \/ ReadCharts /\ UNCHANGED interleaved /\ UNCHANGED callVars
  \/ Finish /\ interleaved' = NoWrites /\ UNCHANGED callVars
  \/ \E shop \in AdminShops, submitted \in ZoneSubmissions :
       pc # "done" /\ SaveSettings(shop, submitted)
       /\ interleaved' = AfterWrite(shop, "zone") /\ UNCHANGED callVars
  \/ \E shop \in AdminShops, doc \in VolumeDocuments :
       pc # "done" /\ SyncVolumePricing(shop, doc)
       /\ interleaved' = AfterWrite(shop, "volume") /\ UNCHANGED callVars
  \/ \E shop \in AdminShops, id \in ChartIds, form \in ChartForms :
       pc # "done" /\ EditChart(shop, id, form)
       /\ interleaved' = AfterWrite(shop, "charts") /\ UNCHANGED callVars
  \/ \E shop \in AdminShops, id \in ChartIds :
       pc # "done" /\ DeleteChart(shop, id)
       /\ interleaved' = AfterWrite(shop, "charts") /\ UNCHANGED callVars

StoreSpec == Init /\ [][StoreNext]_vars

(***************************************************************************)
(* The volume pricing engine called on its own                             *)
(*                                                                         *)
(* The arguments are drawn from lists of line items, tier tables,          *)
(* eligibility snapshots and caps, well formed and malformed; CallEngine   *)
(* applies computeVolumeAdjustedMerchCents to them, MaxCalls times in a    *)
(* row.  The function assigns to none of its parameters (slice and map     *)
(* copy) and the file has no module-level variable, so a call leaves the   *)
(* arguments as they are and reads nothing of an earlier call.             *)
(***************************************************************************)
GidSeven == Str(<<"g", "/", "7">>)

Seven == Str(<<"7">>)

Eight == Str(<<"8">>)

EngineItemSamples ==
  { Item(True, Num(1000), Num(3), GidSeven),
    Item(True, Num(2000), Num(1), Num(8)),
    Item(True, Num(100), Num(2), Seven),
    Item(True, Num(0 - 500), Num(3), Seven),
    [t |-> "object", price |-> Str(<<"a", "b", "c">>),
     quantity |-> Num(2000000), productId |-> Str(<<" ", "7", " ">>)],
    Null }

\* The items argument: a list, null, or a string
EngineItemsArgs ==
  {Array(q) : q \in SeqsUpTo(EngineItemSamples, MaxEngineItems)}
    \cup {Null, Str(<<"x">>)}

TierTable(version, tiers) ==
  [t |-> "object", version |-> Num(version), tiers |-> tiers]

\* The config argument: absent, one tier, equal thresholds, tiers without
\* effect, another version, tiers that are not a list, no tier
EngineConfigs ==
  { Null,
    TierTable(1, Array(<<VolumeTier(3, 200)>>)),
    TierTable(1, Array(<<VolumeTier(3, 200), VolumeTier(3, 500),
                         VolumeTier(1, 50), VolumeTier(5, 300)>>)),
    TierTable(1, Array(<<VolumeTier(0, 900), VolumeTier(4, 0),
                         VolumeTier(2, 150), Null>>)),
    TierTable(2, Array(<<VolumeTier(1, 100)>>)),
    TierTable(1, Str(<<"x">>)),
    TierTable(1, Array(<<>>)) }

Snapshot(version, eligible, excluded) ==
  [t |-> "object", version |-> Num(version),
   eligibleProductIds |-> eligible, excludedProductIds |-> excluded]

\* The eligibilitySnapshot argument: absent, one eligible product, a product
\* in both lists, no eligible product, another version, an eligible list
\* that is a string, no excluded list
EngineSnapshots ==
  { Null,
    Snapshot(1, Array(<<Seven>>), Array(<<>>)),
    Snapshot(1, Array(<<GidSeven, Num(8)>>), Array(<<Eight>>)),
    Snapshot(1, Array(<<>>), Array(<<Seven>>)),
    Snapshot(2, Array(<<Seven>>), Array(<<>>)),
    Snapshot(1, Seven, Array(<<>>)),
    Snapshot(1, Array(<<Seven>>), Undef) }

EngineCaps == {1, HardItemCap}

EngineArgs ==
  [items : EngineItemsArgs, config : EngineConfigs,
   eligibilitySnapshot : EngineSnapshots, hardItemCap : EngineCaps]

\* The route at rest while a function is called on its own
RouteAtRest ==
  /\ build = "volume"
  /\ shopSettings = (ShopA :> None) @@ (ShopB :> None)
  /\ shippingChart = {}
  /\ pc = "idle"
  /\ request = NoRequest
  /\ parsed = FALSE
  /\ reads = <<>>
  /\ items = <<>>
  /\ merchCents = 0
  /\ managedZoneConfig = Null
  /\ basisCents = 0
  /\ volumeMeta = None
  /\ charts = <<>>
  /\ response = NoResponse
  /\ interleaved = NoWrites

\* What one call returns to its caller
EngineReturn(args) ==
  computeVolumeAdjustedMerchCents(args.items, args.config,
                                  args.eligibilitySnapshot, args.hardItemCap)

\* Faulty variant: the warnings are collected in a list that outlives the
\* call
CallEngine_SharedWarnings ==
  /\ engine.calls < MaxCalls
  /\ engine' = [args |-> engine.args,
                calls |-> engine.calls + 1,
                result |->
                  Some([EngineReturn(engine.args) EXCEPT
                          !.warnings = IF engine.result = None THEN @
                                       ELSE engine.result[1].warnings \o @])]
  /\ UNCHANGED routeVars
  /\ UNCHANGED <<zone, coerce>>

\* Two calls in a row of the exported function on the same arguments; the
\* function reads nothing but its arguments and writes only locals
CallEngine ==
  /\ engine.calls < MaxCalls
  /\ engine' = [args |-> engine.args,
                calls |-> engine.calls + 1,
                result |-> Some(EngineReturn(engine.args))]
  /\ UNCHANGED routeVars
  /\ UNCHANGED <<zone, coerce>>

EngineInit ==
  /\ RouteAtRest
  /\ engine \in {[args |-> a, calls |-> 0, result |-> None] : a \in EngineArgs}
  /\ zone = NoCall
  /\ coerce = NoCall

EngineNext == CallEngine

EngineSpec == EngineInit /\ [][EngineNext]_vars

(***************************************************************************)
(* The zone gate called on its own                                         *)
(***************************************************************************)
US == <<"U", "S">>

\* An entry with both a selected flag and a province list
ZoneEntry(selected, provinces) ==
  [t |-> "object", selected |-> selected, provinces |-> provinces]

\* Both groups filled: province lists with codes in need of trimming and
\* upper-casing, an empty list, a selected country, a province list that is
\* text, and a null entry
FullZoneConfig ==
  ZoneConfig((US :> ProvincesEntry(<<<<" ", "c", "a">>, <<"N", "Y">>>>))
               @@ (<<"C", "A">> :> SelectedEntry)
               @@ (<<"M", "X">> :> ProvincesEntry(<<>>)),
             (<<"G", "B">> :> SelectedEntry)
               @@ (<<"F", "R">> :> ZoneEntry(Undef, Str(<<"N", "Y">>)))
               @@ (<<"D", "E">> :> Null))

\* selected values other than true next to province lists that hold a
\* number, a null and an empty code
LooseZoneConfig ==
  ZoneConfig((US :> ZoneEntry(Str(<<"t", "r", "u", "e">>),
                              Array(<<Str(<<"T", "X">>), Num(5), Null>>)))
               @@ (<<"C", "A">> :> ZoneEntry(False, Array(<<Str(<<" ">>)>>)))
               @@ (<<"M", "X">> :> ZoneEntry(True, Array(<<Str(<<"N", "Y">>)>>))),
             (<<"G", "B">> :> Str(<<"y", "e", "s">>)))

\* managedZoneConfig: null, text, a list, an object without groups, groups
\* that are no object, a group missing, a group without countries,
\* countries that are a list, the two filled configurations, and one with
\* each country stored under the group of the other
ZoneConfigs ==
  { Null, Str(<<"x">>), Array(<<>>), [t |-> "object"],
    [t |-> "object", groups |-> Num(1)],
    [t |-> "object",
     groups |-> [t |-> "object",
                 international |->
                   [t |-> "object",
                    countries |-> [t |-> "object",
                                   m |-> (<<"G", "B">> :> SelectedEntry)]]]],
    [t |-> "object",
     groups |-> [t |-> "object", northAmerica |-> [t |-> "object"],
                 international |-> [t |-> "object", countries |-> Null]]],
    [t |-> "object",
     groups |-> [t |-> "object",
                 northAmerica |-> [t |-> "object",
                                   countries |-> Array(<<Str(US)>>)]]],
    FullZoneConfig, LooseZoneConfig,
    ZoneConfig(<<"G", "B">> :> SelectedEntry, US :> SelectedEntry) }

ZoneCountries ==
  { Undef, Null, Num(1), Str(<<>>), Str(US), Str(<<" ", "u", "s", " ">>),
    Str(<<"c", "a">>), Str(<<"M", "X">>), Str(<<"G", "B">>),
    Str(<<"F", "R">>), Str(<<"D", "E">>), Str(<<"I", "T">>) }

ZoneProvinces ==
  { Undef, Null, Num(5), Str(<<>>), Str(<<" ", " ">>), Str(<<"n", "y">>),
    Str(<<" ", "C", "A", " ">>), Str(<<"T", "X">>) }

ZoneArgs ==
  [config : ZoneConfigs, country : ZoneCountries, province : ZoneProvinces]

\* Every member access of the function is guarded (?. or || {}), so the
\* call completes with the value of a return statement
ZoneReturn(args) ==
  [raised |-> FALSE,
   value |-> isDestinationManaged(args.config, args.country, args.province)]

CallZone ==
  /\ zone.calls < MaxCalls
  /\ zone' = [args |-> zone.args,
              calls |-> zone.calls + 1,
              result |-> Some(ZoneReturn(zone.args))]
  /\ UNCHANGED routeVars
  /\ UNCHANGED <<engine, coerce>>

ZoneInit ==
  /\ RouteAtRest
  /\ engine = NoCall
  /\ zone \in {[args |-> a, calls |-> 0, result |-> None] : a \in ZoneArgs}
  /\ coerce = NoCall

ZoneNext == CallZone

ZoneSpec == ZoneInit /\ [][ZoneNext]_vars

(***************************************************************************)
(* The integer coercions called on their own                               *)
(***************************************************************************)
\* Values of a price or quantity field: absent, null, not a number,
\* infinite, integers, numbers with a fractional part, booleans and text
CoerceValues ==
  { Undef, Null, NaN, Infinity, True, False,
    Num(0), Num(7), Num(0 - 7), Num(2000000), Num(0 - 2000000),
    Half(1), Half(0 - 1), Half(5), Half(0 - 5),
    Str(<<>>), Str(<<"1", "2">>), Str(<<" ", "-", "3", " ">>),
    Str(<<"a", "b", "c">>) }

\* toInt(v, fallback) and clampInt(v, min, max) with min <= max
CoerceArgs ==
  [fn : {"toInt"}, v : CoerceValues, fallback : {0, 0 - 1, 42}]
  \cup
  { [fn |-> "clampInt", v |-> v, min |-> r[1], max |-> r[2]] :
      v \in CoerceValues,
      r \in {<<0, 1000000>>, <<0 - 5, 5>>, <<3, 3>>} }

\* Number(.), Number.isFinite, Math.trunc, Math.min and Math.max are
\* defined on every value, so the call completes
CoerceReturn(args) ==
  [raised |-> FALSE,
   value |-> IF args.fn = "toInt" THEN toInt(args.v, args.fallback)
             ELSE clampInt(args.v, args.min, args.max)]

CallCoerce ==
  /\ coerce.calls < MaxCalls
  /\ coerce' = [args |-> coerce.args,
                calls |-> coerce.calls + 1,
                result |-> Some(CoerceReturn(coerce.args))]
  /\ UNCHANGED routeVars
  /\ UNCHANGED <<engine, zone>>

CoerceInit ==
  /\ RouteAtRest
  /\ engine = NoCall
  /\ zone = NoCall
  /\ coerce \in {[args |-> a, calls |-> 0, result |-> None] : a \in CoerceArgs}

CoerceNext == CallCoerce

CoerceSpec == CoerceInit /\ [][CoerceNext]_vars

(***************************************************************************)
(* Vocabulary of the properties                                            *)
(***************************************************************************)
\* The header is the digest of the raw body under the shared secret
SignatureMatches == request.hmac = Hmac(SHOPIFY_API_SECRET, request.rawBody)

Responded == pc = "done"

\* The handler read the charts and ran the tier selection
Priced == pc = "done" /\ reads # <<>> /\ reads[Len(reads)] = "shippingChart"

ReqPayload == request.rawBody.payload

\* The entries of rate.items, when it is a list
ListedItems ==
  LET its == Get(Get(ReqPayload, "rate"), "items") IN
  IF request.rawBody.valid /\ its.t = "array" THEN its.v ELSE <<>>

\* The listed entries flagged as requiring physical shipment
PhysicalItems ==
  SelectSeq(ListedItems,
            LAMBDA e : e.t = "object" /\ "requires_shipping" \in DOMAIN e
                       /\ Truthy(e.requires_shipping))

\* minBasis <= basis and (maxBasis is null or basis <= maxBasis)
Contains(tier, basis) ==
  /\ tier.minCents <= basis
  /\ tier.maxCents = NullInt \/ basis <= tier.maxCents[1]

HasContainingTier(chart, basis) ==
  \E i \in 1..Len(chart.tiers) : Contains(chart.tiers[i], basis)

\* The tier id that an offer's service code ends with
OfferTierId(offer) == offer.service_code[Len(offer.service_code)]

OfferFromChart(offer, chart) == OfferTierId(offer)[1] = chart.id

OfferChart(offer) == CHOOSE c \in Range(charts) : OfferFromChart(offer, c)

OfferTier(offer) ==
  CHOOSE t \in Range(OfferChart(offer).tiers) : t.id = OfferTierId(offer)

Offers == Range(response.rates)

EmptyRates == ~response.raised /\ response.status = 200 /\ response.rates = <<>>

(***************************************************************************)
(* C1: a request whose signature header is missing or is not the digest of *)
(* the raw body under the shared secret is answered 401, and on that path  *)
(* the body is not parsed and no merchant configuration is read.           *)
(***************************************************************************)
C1_BadSignatureRejected ==
  (pc # "idle" /\ ~SignatureMatches) =>
    /\ pc = "done"
    /\ ~response.raised /\ response.status = 401
    /\ ~parsed
    /\ reads = <<>>

C1_Witness ==
  /\ pc = "done"
  /\ request.hmac = Hmac("other-key", request.rawBody)
  /\ request.rawBody.valid
  /\ request.shop = ShopA
  /\ response.status = 401

(***************************************************************************)
(* C2: a response carries a non-empty rate list only if the destination is *)
(* managed under the zone configuration the handler read.                  *)
(***************************************************************************)
C2_RatesOnlyForManagedDestination ==
  (Responded /\ response.rates # <<>>) =>
    isDestinationManaged(managedZoneConfig, DestCountry(ReqPayload),
                         DestProvince(ReqPayload))

(***************************************************************************)
(* C3: the basis matched against the tiers is the volume-adjusted total    *)
(* that the volume discount engine returned for the physical items.        *)
(***************************************************************************)
C3_BasisIsVolumeAdjustedTotal ==
  Priced =>
    /\ volumeMeta # None
    /\ ~volumeMeta[1].threw
    /\ basisCents = volumeMeta[1].volumeAdjustedMerchCents

(***************************************************************************)
(* C4: the handler emits a single offer, from the first chart in the order *)
(* read that has a tier containing the basis and from the first such tier  *)
(* of that chart.                                                          *)
(***************************************************************************)
C4_FirstMatchWins ==
  Priced =>
    /\ Len(response.rates) <= 1
    /\ \A k \in 1..Len(charts) :
         (/\ HasContainingTier(charts[k], basisCents)
          /\ \A j \in 1..(k - 1) : ~HasContainingTier(charts[j], basisCents))
         => /\ Len(response.rates) = 1
            /\ OfferTierId(response.rates[1]) =
                 charts[k].tiers[CHOOSE i \in 1..Len(charts[k].tiers) :
                                   /\ Contains(charts[k].tiers[i], basisCents)
                                   /\ \A h \in 1..(i - 1) :
                                        ~Contains(charts[k].tiers[h], basisCents)].id

RoundHalfUp(num, den) ==
  IF 2 * (num % den) >= den THEN (num \div den) + 1 ELSE num \div den

ExpectedPrice(chart, tier, basis) ==
  (IF tier.priceType = "PERCENT_OF_BASIS"
   THEN RoundHalfUp(basis * tier.percentBps[1], 10000)
   ELSE tier.flatPriceCents[1])
  + chart.handlingFeeCents

C6_OfferPrice ==
  Priced =>
    \A o \in Offers :
      o.total_price = IntToStr(ExpectedPrice(OfferChart(o), OfferTier(o), basisCents))

\* A percentage tier whose exact price ends in one half, on a chart with a
\* handling fee
C6_Witness ==
  /\ Priced
  /\ \E o \in Offers :
       /\ OfferTier(o).priceType = "PERCENT_OF_BASIS"
       /\ 2 * ((basisCents * OfferTier(o).percentBps[1]) % 10000) = 10000
       /\ OfferChart(o).handlingFeeCents > 0

ItemsUnfilterable ==
  LET its == Get(Get(ReqPayload, "rate"), "items") IN
  /\ request.rawBody.valid
  /\ \/ its.t \notin {"undefined", "null", "array"}
     \/ its.t = "array" /\ \E i \in 1..Len(its.v) : its.v[i].t = "null"

OddShape ==
  LET rate == Get(ReqPayload, "rate")
      its == Get(rate, "items")
  IN \/ rate.t = "undefined"
     \/ its.t # "array"
     \/ \E i \in 1..Len(its.v) : its.v[i].t # "object"

(***************************************************************************)
(* C8: a verified request that names a shop always gets a response and     *)
(* never makes the handler raise; a body that is not valid JSON or that    *)
(* has an unexpected shape is answered 200 with an empty rate list.        *)
(***************************************************************************)
C8_NeverRaises ==
  (Responded /\ SignatureMatches /\ request.shop # NoShop) =>
    /\ ~response.raised
    /\ (~request.rawBody.valid \/ OddShape) => EmptyRates

\* Absent, null, non-numeric text, NaN or infinite
NotAFiniteNumber(x) ==
  \/ x.t \in {"undefined", "null", "NaN", "Infinity"}
  \/ x.t = "string" /\ ~IsFinite(StringToNumber(x.s))
  \/ x.t \notin {"undefined", "null", "NaN", "Infinity", "string", "number"}

(***************************************************************************)
(* C9: when a physical item of a verified request whose entries are all    *)
(* objects has a price or a quantity that is not a finite number, the      *)
(* response is 200 with an empty rate list.                                *)
(***************************************************************************)
C9_NonFiniteFailsClosed ==
  (/\ Responded /\ SignatureMatches /\ request.shop # NoShop
   /\ \A i \in 1..Len(ListedItems) : ListedItems[i].t = "object"
   /\ \E i \in 1..Len(PhysicalItems) :
        \/ NotAFiniteNumber(Get(PhysicalItems[i], "price"))
        \/ NotAFiniteNumber(Get(PhysicalItems[i], "quantity")))
  => EmptyRates

(***************************************************************************)
(* C10: the items the handler works on are the listed items flagged as     *)
(* requiring shipping, and a verified request of valid JSON with no such   *)
(* item is answered 200 with an empty rate list without reading the zone   *)
(* configuration or the charts.                                            *)
(***************************************************************************)
C10_OnlyPhysicalItems ==
  /\ pc \in {"settings", "volume", "charts"} => items = PhysicalItems
  /\ (/\ Responded /\ SignatureMatches /\ request.shop # NoShop
      /\ request.rawBody.valid
      /\ PhysicalItems = <<>>)
     => (EmptyRates /\ reads = <<>>)

(***************************************************************************)
(* Vocabulary of the properties of the volume pricing engine               *)
(***************************************************************************)
EngineReturned == engine.calls >= 1 /\ ~engine.result[1].threw

EngineRaised == engine.calls >= 1 /\ engine.result[1].threw

EngineOutput == engine.result[1]

\* The line items that enter the computation: the first hardItemCap ones
CappedList ==
  IF engine.args.items.t # "array" THEN <<>>
  ELSE [i \in 1..(IF Len(engine.args.items.v) < engine.args.hardItemCap
                  THEN Len(engine.args.items.v)
                  ELSE engine.args.hardItemCap) |-> engine.args.items.v[i]]

UnitPrice(item) == toInt(Get(item, "price"), 0)

\* The quantity clamped to 0 .. 1,000,000
ClampedQuantity(item) ==
  LET q == toInt(Get(item, "quantity"), 0)
  IN IF q < 0 THEN 0 ELSE IF q > 1000000 THEN 1000000 ELSE q

\* The trailing numeric segment of a URN-like identifier, else the trimmed
\* text of the identifier itself
CanonicalId(v) ==
  IF v.t \in {"null", "undefined"} THEN <<>>
  ELSE LET s == Trim(JsString(v))
           slashes == {i \in 1..Len(s) : s[i] = "/"}
           last == CHOOSE i \in slashes : \A j \in slashes : j <= i
       IN IF slashes # {} /\ last < Len(s)
             /\ \A k \in (last + 1)..Len(s) : IsDigit(s[k])
          THEN SubSeq(s, last + 1, Len(s))
          ELSE s

ItemIdentifier(item) ==
  CanonicalId(IF Truthy(Get(item, "product_id")) THEN Get(item, "product_id")
              ELSE IF Truthy(Get(item, "productId")) THEN Get(item, "productId")
              ELSE Get(item, "product"))

\* The identifiers of a list of the snapshot, when the snapshot is of
\* version 1 and the list is a list
SnapshotIds(field) ==
  LET snap == engine.args.eligibilitySnapshot
      ids == Get(snap, field)
  IN IF Get(snap, "version") = Num(1) /\ ids.t = "array"
     THEN {CanonicalId(ids.v[i]) : i \in 1..Len(ids.v)}
     ELSE {}

EligibleIds == SnapshotIds("eligibleProductIds")

ExcludedIds == SnapshotIds("excludedProductIds")

IsEligibleItem(item) ==
  /\ ItemIdentifier(item) # <<>>
  /\ ItemIdentifier(item) \in EligibleIds
  /\ ItemIdentifier(item) \notin ExcludedIds

RECURSIVE SumUpTo(_, _)
SumUpTo(f, n) == IF n = 0 THEN 0 ELSE f[n] + SumUpTo(f, n - 1)

\* Sum of unitPrice x quantity over the capped list
RawTotal ==
  SumUpTo([i \in 1..Len(CappedList) |->
             UnitPrice(CappedList[i]) * ClampedQuantity(CappedList[i])],
          Len(CappedList))

\* Sum of the clamped quantities of the eligible items of the capped list
EligibleQuantity ==
  SumUpTo([i \in 1..Len(CappedList) |->
             IF IsEligibleItem(CappedList[i])
             THEN ClampedQuantity(CappedList[i]) ELSE 0],
          Len(CappedList))

\* The tier table, when the config is of version 1 and holds a list
TableTiers ==
  LET ts == Get(engine.args.config, "tiers")
  IN IF Get(engine.args.config, "version") = Num(1) /\ ts.t = "array"
     THEN ts.v ELSE <<>>

Threshold(i) == toInt(Get(TableTiers[i], "minEligibleQty"), 0)

Discount(i) == toInt(Get(TableTiers[i], "discountCentsEach"), 0)

\* The tiers with a positive threshold, no larger than q, and a positive
\* per-unit discount
QualifyingTiers(q) ==
  {i \in 1..Len(TableTiers) :
     Threshold(i) > 0 /\ Discount(i) > 0 /\ Threshold(i) <= q}

\* Highest threshold, the first one when thresholds are equal
BestQualifying(q) ==
  CHOOSE i \in QualifyingTiers(q) :
    \A j \in QualifyingTiers(q) :
      Threshold(j) < Threshold(i) \/ (Threshold(j) = Threshold(i) /\ i <= j)

(***************************************************************************)
(* C11: the engine applies, among the tiers with positive threshold and    *)
(* positive discount whose threshold is at most the eligible quantity, the *)
(* one with the highest threshold, the first one among equal thresholds;   *)
(* when there is none the applied tier is null and the basis is the        *)
(* undiscounted total.                                                     *)
(***************************************************************************)
C11_BestTier ==
  EngineReturned =>
    IF QualifyingTiers(EligibleQuantity) = {}
    THEN /\ EngineOutput.appliedTier = None
         /\ EngineOutput.volumeAdjustedMerchCents = RawTotal
    ELSE EngineOutput.appliedTier =
           Some([minEligibleQty |-> Threshold(BestQualifying(EligibleQuantity)),
                 discountCentsEach |-> Discount(BestQualifying(EligibleQuantity))])

\* Two qualifying tiers of equal threshold and a qualifying tier of lower
\* threshold: the first of the equal ones is applied
C11_Witness ==
  /\ EngineReturned
  /\ \E i, j \in QualifyingTiers(EligibleQuantity) :
       i < j /\ Threshold(i) = Threshold(j) /\ Discount(i) # Discount(j)
       /\ EngineOutput.appliedTier =
            Some([minEligibleQty |-> Threshold(i), discountCentsEach |-> Discount(i)])
  /\ \E k \in QualifyingTiers(EligibleQuantity) :
       Threshold(k) < EngineOutput.appliedTier[1].minEligibleQty

\* max(0, unitPrice - discountPerUnit)
DiscountedUnitPrice(item, discountPerUnit) ==
  IF UnitPrice(item) - discountPerUnit < 0 THEN 0
  ELSE UnitPrice(item) - discountPerUnit

\* Eligible items at the discounted unit price, the others at full price
AdjustedTotal(discountPerUnit) ==
  SumUpTo([i \in 1..Len(CappedList) |->
             IF IsEligibleItem(CappedList[i])
             THEN DiscountedUnitPrice(CappedList[i], discountPerUnit)
                  * ClampedQuantity(CappedList[i])
             ELSE UnitPrice(CappedList[i]) * ClampedQuantity(CappedList[i])],
          Len(CappedList))

\* Items (1000 x 3, eligible) and (2000 x 1, not eligible), tier
\* {threshold 3, discount 200}
ExampleCall ==
  [items |-> Array(<<Item(True, Num(1000), Num(3), GidSeven),
                     Item(True, Num(2000), Num(1), Num(8))>>),
   config |-> TierTable(1, Array(<<VolumeTier(3, 200)>>)),
   eligibilitySnapshot |-> Snapshot(1, Array(<<Seven>>), Array(<<>>)),
   hardItemCap |-> HardItemCap]

(***************************************************************************)
(* C12: when a tier is applied the adjusted basis is the sum over the      *)
(* eligible items of max(0, unitPrice - discountPerUnit) x quantity plus   *)
(* the sum over the other items of unitPrice x quantity, and the total     *)
(* discount is what was taken off; the example call gives eligible         *)
(* quantity 3 and basis 4400.                                              *)
(***************************************************************************)
C12_AdjustedBasis ==
  /\ (EngineReturned /\ EngineOutput.appliedTier # None) =>
       /\ EngineOutput.volumeAdjustedMerchCents =
            AdjustedTotal(EngineOutput.appliedTier[1].discountCentsEach)
       /\ EngineOutput.discountCentsTotal =
            RawTotal - EngineOutput.volumeAdjustedMerchCents
       /\ \A i \in 1..Len(CappedList) :
            IsEligibleItem(CappedList[i]) =>
              DiscountedUnitPrice(CappedList[i],
                                  EngineOutput.appliedTier[1].discountCentsEach) >= 0
  /\ (engine.calls >= 1 /\ engine.args = ExampleCall) =>
       /\ EngineReturned
       /\ EngineOutput.eligibleQty = 3
       /\ EngineOutput.volumeAdjustedMerchCents = 4400

\* A tier is applied whose discount exceeds the unit price of an eligible
\* item, next to an item that is not eligible
C12_Witness ==
  /\ EngineReturned
  /\ EngineOutput.appliedTier # None
  /\ \E i \in 1..Len(CappedList) :
       /\ IsEligibleItem(CappedList[i])
       /\ UnitPrice(CappedList[i]) > 0
       /\ UnitPrice(CappedList[i]) < EngineOutput.appliedTier[1].discountCentsEach
  /\ \E i \in 1..Len(CappedList) :
       ~IsEligibleItem(CappedList[i]) /\ UnitPrice(CappedList[i]) > 0

(***************************************************************************)
(* C13 as written: on every call that returns, the eligible quantity of    *)
(* the result is the sum of the clamped quantities of the items of the     *)
(* capped list whose normalized product identifier is in the eligible set  *)
(* and not in the excluded set.                                            *)
(***************************************************************************)
C13_EligibleQuantityAlways ==
  EngineReturned => EngineOutput.eligibleQty = EligibleQuantity

(***************************************************************************)
(* C13: when the tier table holds at least one tier, the eligible quantity *)
(* of the result is the sum of the clamped quantities of the items of the  *)
(* capped list whose normalized product identifier is in the eligible set  *)
(* and not in the excluded set; with no tier table the result reports      *)
(* eligible quantity 0.                                                    *)
(***************************************************************************)
C13_EligibleQuantity ==
  EngineReturned =>
    EngineOutput.eligibleQty =
      IF TableTiers = <<>> THEN 0 ELSE EligibleQuantity

\* An item whose identifier is in both sets next to an item made eligible
\* by the trailing segment of its identifier
C13_Witness ==
  /\ EngineReturned
  /\ TableTiers # <<>>
  /\ \E i \in 1..Len(CappedList) :
       /\ ItemIdentifier(CappedList[i]) \in EligibleIds \cap ExcludedIds
       /\ ClampedQuantity(CappedList[i]) > 0
  /\ \E i \in 1..Len(CappedList) :
       /\ IsEligibleItem(CappedList[i])
       /\ Get(CappedList[i], "product_id") = GidSeven
  /\ EngineOutput.eligibleQty = 3

\* A non-empty cart priced against a snapshot that yields no eligible
\* identifier: absent, of another version, or with an empty eligible list
EmptyEligibility ==
  /\ EngineReturned
  /\ engine.args.items.t = "array"
  /\ Len(engine.args.items.v) > 0
  /\ EligibleIds = {}

Warned(code) ==
  \E i \in 1..Len(EngineOutput.warnings) : EngineOutput.warnings[i] = code

Undiscounted ==
  /\ EngineOutput.volumeAdjustedMerchCents = RawTotal
  /\ EngineOutput.appliedTier = None
  /\ EngineOutput.discountCentsTotal = 0

(***************************************************************************)
(* C14 as written: with an empty eligible set, for every tier table and    *)
(* every non-empty cart, the basis is the raw merchandise total, no tier   *)
(* is applied and the warnings contain eligibility_missing_or_empty.       *)
(***************************************************************************)
C14_WarnedForEveryTable ==
  EmptyEligibility =>
    Undiscounted /\ Warned("eligibility_missing_or_empty")

(***************************************************************************)
(* C14: with an empty eligible set, for every tier table and every         *)
(* non-empty cart, the basis is the raw merchandise total and no tier is   *)
(* applied; the warnings contain eligibility_missing_or_empty when the     *)
(* tier table holds at least one tier.                                     *)
(***************************************************************************)
C14_EmptyEligibility ==
  EmptyEligibility =>
    /\ Undiscounted
    /\ TableTiers # <<>> => Warned("eligibility_missing_or_empty")

\* A cart of positive total against a tier table whose threshold the cart
\* would reach, were its items eligible
C14_Witness ==
  /\ EmptyEligibility
  /\ TableTiers # <<>>
  /\ RawTotal > 0
  /\ \E i \in 1..Len(TableTiers) :
       /\ Threshold(i) > 0
       /\ Discount(i) > 0
       /\ Threshold(i) <= ClampedQuantity(CappedList[1])
  /\ Warned("eligibility_missing_or_empty")

\* The try block of the volume version ended in its catch: the read of the
\* provider or the engine raised
VolumeFailed ==
  /\ build = "volume"
  /\ pc \in {"charts", "done"}
  /\ volumeMeta # None
  /\ volumeMeta[1].threw

\* The stored eligibility snapshot makes the engine raise
StoredSnapshotRaises ==
  /\ shopSettings[request.shop] # None
  /\ Get(shopSettings[request.shop][1].volumeEligibilitySnapshotJson.value,
         "eligibleProductIds").t = "string"

(***************************************************************************)
(* C15: when loading the volume configuration or running the engine        *)
(* raises, the handler goes on with basis = the undiscounted merchandise   *)
(* total, answers 200 without raising, and offers a rate, priced on that   *)
(* total, whenever a chart read has a tier containing it.                  *)
(***************************************************************************)
C15_VolumeFailureKeepsUndiscountedBasis ==
  VolumeFailed =>
    /\ basisCents = merchCents
    /\ Priced =>
         /\ ~response.raised
         /\ response.status = 200
         /\ (\E i \in 1..Len(charts) : HasContainingTier(charts[i], merchCents))
              => response.rates # <<>>
         /\ \A o \in Offers :
              /\ Contains(OfferTier(o), merchCents)
              /\ o.total_price =
                   IntToStr(ExpectedPrice(OfferChart(o), OfferTier(o), merchCents))

\* The engine raised on the stored snapshot and a rate is offered all the
\* same
C15_Witness ==
  /\ VolumeFailed
  /\ Priced
  /\ StoredSnapshotRaises
  /\ merchCents > 0
  /\ response.rates # <<>>

\* Arguments of another shape than documented that switch the discount
\* off: items that are no list, a tier table of another version or whose
\* tiers are no list, a snapshot of another version
MalformedCall ==
  \/ engine.args.items.t # "array"
  \/ engine.args.config.t # "null"
     /\ (Get(engine.args.config, "version") # Num(1)
         \/ Get(engine.args.config, "tiers").t # "array")
  \/ engine.args.eligibilitySnapshot.t # "null"
     /\ Get(engine.args.eligibilitySnapshot, "version") # Num(1)

(***************************************************************************)
(* C16: every call of the engine, malformed arguments included, returns    *)
(* without raising a result with ok = true, a non-negative basis and a     *)
(* list of warnings; on malformed arguments no tier is applied and the     *)
(* discount is zero.                                                       *)
(***************************************************************************)
C16_EngineNeverRaises ==
  engine.calls >= 1 =>
    /\ ~EngineOutput.threw
    /\ EngineOutput.ok
    /\ EngineOutput.volumeAdjustedMerchCents \in Int
    /\ EngineOutput.warnings \in Seq({"items_capped", "eligibility_missing_or_empty"})
    /\ MalformedCall =>
         EngineOutput.appliedTier = None /\ EngineOutput.discountCentsTotal = 0

(***************************************************************************)
(* C17: only the first hardItemCap items enter the computation: basis plus *)
(* discount is the raw total of the capped list and the eligible quantity  *)
(* is counted over the capped list; the warnings contain items_capped      *)
(* exactly when the list is longer than the cap; the result is still ok.   *)
(***************************************************************************)
C17_ItemCap ==
  (EngineReturned /\ engine.args.items.t = "array"
                  /\ Len(engine.args.items.v) > 0) =>
    /\ EngineOutput.ok
    /\ Warned("items_capped") <=>
         Len(engine.args.items.v) > engine.args.hardItemCap
    /\ EngineOutput.volumeAdjustedMerchCents + EngineOutput.discountCentsTotal
         = RawTotal
    /\ EngineOutput.eligibleQty \in {0, EligibleQuantity}

\* A list longer than the cap whose item beyond the cap has a price and a
\* quantity, and would have been eligible
C17_Witness ==
  /\ EngineReturned
  /\ engine.args.items.t = "array"
  /\ engine.args.hardItemCap = 1
  /\ Len(engine.args.items.v) = 2
  /\ UnitPrice(engine.args.items.v[2]) * ClampedQuantity(engine.args.items.v[2]) > 0
  /\ ItemIdentifier(engine.args.items.v[2]) \in EligibleIds \ ExcludedIds
  /\ Warned("items_capped")
  /\ EngineOutput.volumeAdjustedMerchCents = RawTotal
  /\ RawTotal > 0

ZoneCalled == zone.calls >= 1

ZoneOutput == zone.result[1]

\* Text of a destination code: nothing for an absent or empty value
CodeText(v) ==
  IF v.t \in {"undefined", "null"} THEN <<>>
  ELSE IF v.t = "number" THEN (IF v.n = 0 THEN <<>> ELSE IntToStr(v.n))
  ELSE v.s

\* Trimmed and upper-cased
Canonical(cs) == ToUpperCase(Trim(cs))

ZoneCountry == Canonical(CodeText(zone.args.country))

ZoneProvince == Canonical(CodeText(zone.args.province))

ZoneGroup ==
  IF ZoneCountry \in {<<"U", "S">>, <<"C", "A">>, <<"M", "X">>}
  THEN "northAmerica" ELSE "international"

\* The entries by country code of the destination's group; none when the
\* configuration has no such group or no countries object in it
ZoneEntries ==
  LET cfg == zone.args.config IN
  IF /\ cfg.t = "object" /\ "groups" \in DOMAIN cfg
     /\ cfg.groups.t = "object" /\ ZoneGroup \in DOMAIN cfg.groups
     /\ cfg.groups[ZoneGroup].t = "object"
     /\ "countries" \in DOMAIN cfg.groups[ZoneGroup]
     /\ cfg.groups[ZoneGroup].countries.t = "object"
  THEN cfg.groups[ZoneGroup].countries.m
  ELSE <<>>

HasZoneEntry == ZoneCountry \in DOMAIN ZoneEntries

TheZoneEntry == ZoneEntries[ZoneCountry]

ProvinceGated ==
  /\ HasZoneEntry
  /\ TheZoneEntry.t = "object"
  /\ Get(TheZoneEntry, "provinces").t = "array"
  /\ Get(TheZoneEntry, "selected") # True

\* The listed province codes, trimmed and upper-cased
ListedCodes ==
  {Canonical(CodeText(TheZoneEntry.provinces.v[i])) :
     i \in 1..Len(TheZoneEntry.provinces.v)}

(***************************************************************************)
(* C20: for an entry that lists provinces and is not selected, the result  *)
(* is true exactly when the destination province, trimmed and upper-cased, *)
(* is not blank and equals some listed code, trimmed and upper-cased.      *)
(***************************************************************************)
C20_ProvinceGate ==
  (ZoneCalled /\ ProvinceGated) =>
    (ZoneOutput.value <=> (ZoneProvince # <<>> /\ ZoneProvince \in ListedCodes))

\* Destination " CA " against the listed code " ca"
C20_Witness ==
  /\ ZoneCalled
  /\ ProvinceGated
  /\ zone.args.province = Str(<<" ", "C", "A", " ">>)
  /\ Str(<<" ", "c", "a">>) \in Range(TheZoneEntry.provinces.v)
  /\ ZoneOutput.value = TRUE

\* The entries by country code of the group the destination does not
\* belong to
OtherGroupEntries ==
  LET cfg == zone.args.config
      other == IF ZoneGroup = "northAmerica" THEN "international"
               ELSE "northAmerica"
  IN IF /\ cfg.t = "object" /\ "groups" \in DOMAIN cfg
        /\ cfg.groups.t = "object" /\ other \in DOMAIN cfg.groups
        /\ cfg.groups[other].t = "object"
        /\ "countries" \in DOMAIN cfg.groups[other]
        /\ cfg.groups[other].countries.t = "object"
     THEN cfg.groups[other].countries.m
     ELSE <<>>

SelectedCountry ==
  /\ HasZoneEntry
  /\ TheZoneEntry.t = "object"
  /\ Get(TheZoneEntry, "selected") = True

(***************************************************************************)
(* C21: when the entry of the destination country in the country's own     *)
(* region group has selected: true the result is true for every province   *)
(* code, an absent one included; an entry stored under the other region    *)
(* group is not consulted and leaves the destination unmanaged.            *)
(***************************************************************************)
C21_SelectedCountry ==
  ZoneCalled =>
    /\ SelectedCountry => ZoneOutput.value = TRUE
    /\ (~HasZoneEntry /\ ZoneCountry \in DOMAIN OtherGroupEntries)
         => ZoneOutput.value = FALSE

\* Mexico selected in the North America group, no province in the request
C21_Witness ==
  /\ ZoneCalled
  /\ SelectedCountry
  /\ ZoneCountry = <<"M", "X">>
  /\ zone.args.province = Undef
  /\ ZoneOutput.value = TRUE

(***************************************************************************)
(* C22: the zone configuration, tier table, eligibility snapshot and       *)
(* charts that a request uses reflect one state of the merchant's stored   *)
(* configuration: there is an instant of the request at which the store    *)
(* held all of them together, whatever administrative writes are           *)
(* interleaved with the request.                                           *)
(***************************************************************************)
C22_ReadsOfOneState ==
  Priced => ~interleaved.torn

\* A step of the rate handler: every one moves pc, no administrative write
\* does
HandlerStep == pc' # pc

RequestCurrency == Get(Get(ReqPayload, "rate"), "currency")

(***************************************************************************)
(* C24: every offer of a non-empty response carries the currency code of   *)
(* the request, and the default currency only when the request gives none. *)
(***************************************************************************)
C24_OfferCurrency ==
  (Responded /\ response.rates # <<>>) =>
    \A o \in Offers :
      o.currency = IF RequestCurrency.t = "string" /\ RequestCurrency.s # <<>>
                   THEN RequestCurrency ELSE USD

\* The charts read that have a tier containing the basis, in the order read
MatchingCharts ==
  SelectSeq(charts, LAMBDA c : HasContainingTier(c, basisCents))

\* The first tier of the chart, in the order read, that contains the basis
FirstContaining(chart) ==
  chart.tiers[CHOOSE i \in 1..Len(chart.tiers) :
                /\ Contains(chart.tiers[i], basisCents)
                /\ \A h \in 1..(i - 1) : ~Contains(chart.tiers[h], basisCents)]

CoerceCalled == coerce.calls >= 1

CoerceOutput == coerce.result[1]

\* Twice the number that the argument converts to, when it is finite
TwiceValue ==
  LET x == ToNumber(coerce.args.v) IN IF x.s = <<>> THEN 2 * x.n ELSE x.n

ConvertsToFinite == IsFinite(ToNumber(coerce.args.v))

Abs(i) == IF i < 0 THEN 0 - i ELSE i

\* r is the value truncated toward zero: between 0 and the value, and less
\* than 1 away from it
IsTruncation(r) ==
  /\ r \in Int
  /\ (r >= 0 /\ TwiceValue >= 0) \/ (r <= 0 /\ TwiceValue <= 0)
  /\ 2 * Abs(r) <= Abs(TwiceValue)
  /\ Abs(TwiceValue) < 2 * Abs(r) + 2

ChartsOfId(store, id) == {c \in store : c.id = id}

\* The ShippingTier table: the tiers of all the charts
TierRows(store) == UNION {Range(c.tiers) : c \in store}

\* Every tier carries the id of one stored chart, which has a shop, and no
\* two charts and no two tiers share an id
TiersOwned ==
  /\ \A c, d \in shippingChart : c.id = d.id => c = d
  /\ \A c \in shippingChart :
       /\ c.shop \in Shops
       /\ \A k \in DOMAIN c.tiers : c.tiers[k].chartId = c.id
  /\ \A c, d \in shippingChart :
       \A i \in DOMAIN c.tiers, j \in DOMAIN d.tiers :
         c.tiers[i].id = d.tiers[j].id => c = d /\ i = j
  /\ \A tier \in TierRows(shippingChart) :
       Cardinality(ChartsOfId(shippingChart, tier.chartId)) = 1

\* A step that changes a chart leaves it with the tiers of one submitted
\* form and nothing else, a step that removes a chart removes its tiers,
\* and the charts a request has read carry all the tiers stored with them
TierLifecycle ==
  /\ \A id \in ChartIds :
       LET before == ChartsOfId(shippingChart, id)
           after == ChartsOfId(shippingChart', id)
       IN /\ after # before /\ after # {} =>
               \E form \in ChartForms :
                 \A c \in after : c.tiers = CreateTiers(id, form.tiers)
          /\ after = {} =>
               \A tier \in TierRows(shippingChart') : tier.chartId # id
  /\ pc = "charts" /\ pc' = "done" =>
       \A k \in DOMAIN charts' :
         \E c \in shippingChart :
           /\ c.id = charts'[k].id
           /\ Len(charts'[k].tiers) = Len(c.tiers)
           /\ Range(charts'[k].tiers) = Range(c.tiers)
           /\ \E form \in ChartForms : Len(c.tiers) = Len(form.tiers)

C28_BasisPlusDiscount ==
  EngineReturned =>
    RawTotal - EngineOutput.discountCentsTotal
      = EngineOutput.volumeAdjustedMerchCents

\* A tier is applied to two items, one of them eligible with a unit price
\* below the discount, the other one not eligible
C28_Witness ==
  /\ EngineReturned
  /\ EngineOutput.appliedTier # None
  /\ Len(CappedList) = 2
  /\ \E i, j \in 1..2 :
       /\ IsEligibleItem(CappedList[i])
       /\ UnitPrice(CappedList[i]) > 0
       /\ UnitPrice(CappedList[i]) < EngineOutput.appliedTier[1].discountCentsEach
       /\ ~IsEligibleItem(CappedList[j])
       /\ UnitPrice(CappedList[j]) * ClampedQuantity(CappedList[j]) > 0
  /\ EngineOutput.discountCentsTotal > 0
  /\ EngineOutput.volumeAdjustedMerchCents > 0

(***************************************************************************)
(* C29: whatever the sign of the unit prices, the total discount the       *)
(* engine reports is >= 0 and the adjusted basis is <= the raw merchandise *)
(* total: applying a volume tier never raises the basis.                   *)
(***************************************************************************)
C29_DiscountNeverRaisesBasis ==
  EngineReturned =>
    /\ EngineOutput.discountCentsTotal >= 0
    /\ EngineOutput.volumeAdjustedMerchCents <= RawTotal

\* The engine ran for the request in flight and applied no tier
NoTierApplied ==
  /\ build = "volume"
  /\ pc \in {"charts", "done"}
  /\ volumeMeta # None
  /\ ~volumeMeta[1].threw
  /\ volumeMeta[1].appliedTier = None

(***************************************************************************)
(* C30: whenever the engine applies no tier, the basis the handler uses is *)
(* the merchandise total the handler itself computed from the same items   *)
(* (sum of price x quantity), whatever the length of the cart and the      *)
(* finite quantities.                                                      *)
(***************************************************************************)
C30_NoTierKeepsMerchTotal == NoTierApplied => basisCents = merchCents

====
